---- MODULE Spec2Model ----
(***************************************************************************)
(* Parcel-proximity aggregation and report synthesis of absolute-BE.       *)
(*                                                                         *)
(*   app/api/endpoints/stations.py   _classify_parcel_area,                *)
(*                                   _extract_land_use,                    *)
(*                                   _summarise_nearby_parcels             *)
(*   app/services/report_service.py  LLMReportService                      *)
(*                                                                         *)
(* Python values are modelled as tagged records with a uniform shape, so   *)
(* that values of different Python types can be compared.  The Korean      *)
(* string literals of the source are written with ASCII names, listed      *)
(* where each is introduced.                                               *)
(*                                                                         *)
(* Numbers.  Floats are modelled in fixed point.  A geometry's area is an  *)
(* integer number of 1e-10 square degrees and its centroid distance an     *)
(* integer number of 1e-5 degrees; areas in square metres are carried in   *)
(* units of 1e-4 m2 and distances in metres in units of 1e-2 m.            *)
(***************************************************************************)
EXTENDS Integers, Sequences, FiniteSets, TLC

VARIABLES
    \* ---- LLMReportService: the six defaults of __init__, the routing table
    svc, routing_table,
    \* ---- _resolve_route called on its own: position, argument, result
    rt_pc, rt_id, rt_out,
    \* ---- generate_report: arguments, position, locals, the request posted,
    \* what the remote end did, the value returned; and as history the
    \* number of posts and the steps of the current call, and the reports
    \* returned so far by calls whose remote call failed
    rp_station, rp_recommendations, rp_parcel_summary, rp_station_id,
    rp_pc, route_config, request, remote, llm_response, result,
    calls, events, failed_reports, failed_calls,
    \* ---- _classify_parcel_area applied to a pair of areas
    cls_pc, cls_a, cls_b, cls_ra, cls_rb,
    \* ---- _summarise_nearby_parcels: argument, loop position, locals, result
    gdf, row_idx, bucket_counter, total_area, land_use_counter, closest_info,
    sum_pc, sum_result,
    \* ---- ParcelService: the base directory on disk, the service object
    \* (cache, _is_loaded, _last_error), and as history the last call made
    \* on it with what it returned and the state it started from
    base_dir, parcel_service, ps_call,
    \* ---- the same service called from several threads at once: for each
    \* thread the call it is in, its position and its locals
    threads,
    \* ---- the service accessors: the two module globals (0 for None, or a
    \* reference into the objects constructed so far), as history every
    \* object constructed by each accessor, and each caller's position, the
    \* object it has just constructed and the reference it was returned
    _report_service_instance, _parcel_service_instance, constructed, callers

clsVars == <<cls_pc, cls_a, cls_b, cls_ra, cls_rb>>
sumVars == <<gdf, row_idx, bucket_counter, total_area, land_use_counter,
             closest_info, sum_pc, sum_result>>
svcVars == <<svc, routing_table>>
rtVars == <<rt_pc, rt_id, rt_out>>
rpVars == <<rp_station, rp_recommendations, rp_parcel_summary, rp_station_id,
            rp_pc, route_config, request, remote, llm_response, result,
            calls, events, failed_reports, failed_calls>>
psVars == <<base_dir, parcel_service, ps_call, threads>>
depVars == <<_report_service_instance, _parcel_service_instance, constructed,
             callers>>
vars == <<svcVars, rtVars, rpVars, clsVars, sumVars, psVars, depVars>>

\* What each component leaves alone.
notCls == <<svcVars, rtVars, rpVars, sumVars, psVars, depVars>>
notSum == <<svcVars, rtVars, rpVars, clsVars, psVars, depVars>>
notRoute == <<rpVars, clsVars, sumVars, psVars, depVars>>
notReport == <<rtVars, clsVars, sumVars, psVars, depVars>>
notParcel == <<svcVars, rtVars, rpVars, clsVars, sumVars, depVars>>
notDeps == <<svcVars, rtVars, rpVars, clsVars, sumVars, psVars>>

(***************************************************************************)
(* Python scalars: None, str, int, float (n in tenths), bool (n in 0..1),  *)
(* the float NaN, and an empty list.                                       *)
(***************************************************************************)
None == [t |-> "none", s |-> "", n |-> 0]
Str(x) == [t |-> "str", s |-> x, n |-> 0]
PyInt(k) == [t |-> "int", s |-> "", n |-> k]
PyFloat(tenths) == [t |-> "float", s |-> "", n |-> tenths]
PyBool(b) == [t |-> "bool", s |-> "", n |-> IF b THEN 1 ELSE 0]
NaN == [t |-> "nan", s |-> "", n |-> 0]
EmptyList == [t |-> "list", s |-> "", n |-> 0]

\* bool(value)
Truthy(v) ==
    CASE v.t = "none" -> FALSE
      [] v.t = "str" -> v.s # ""
      [] v.t \in {"int", "float", "bool"} -> v.n # 0
      [] v.t = "list" -> FALSE
      [] OTHER -> TRUE

\* str(value)
PyStr(v) ==
    CASE v.t = "none" -> "None"
      [] v.t = "str" -> v.s
      [] v.t = "int" -> ToString(v.n)
      [] v.t = "float" -> ToString(v.n \div 10) \o "." \o ToString(v.n % 10)
      [] v.t = "bool" -> IF v.n = 1 THEN "True" ELSE "False"
      [] v.t = "list" -> "[]"
      [] OTHER -> "nan"

\* mapping.get(key), None when the key is absent
Get(row, key) == IF key \in DOMAIN row THEN row[key] ELSE None

Abs(x) == IF x < 0 THEN -x ELSE x

(***************************************************************************)
(* stations.py                                                             *)
(***************************************************************************)
METERS_PER_DEGREE == 111000

\* One square metre and one metre in the fixed-point units of the model.
M2 == 100 * 100
M1 == 10 * 10

\* Bucket labels: SMALL = "소형", MEDIUM = "중형", LARGE = "대형",
\* XLARGE = "초대형".
Buckets == <<"SMALL", "MEDIUM", "LARGE", "XLARGE">>

classify_wrong_boundary(area_m2) ==
    IF area_m2 <= 300 * M2 THEN "SMALL"
    ELSE IF area_m2 < 1000 * M2 THEN "MEDIUM"
    ELSE IF area_m2 < 3000 * M2 THEN "LARGE"
    ELSE "XLARGE"

_classify_parcel_area(area_m2) ==
    IF area_m2 < 300 * M2 THEN "SMALL"
    ELSE IF area_m2 < 1000 * M2 THEN "MEDIUM"
    ELSE IF area_m2 < 3000 * M2 THEN "LARGE"
    ELSE "XLARGE"

\* The candidate keys; KO_JIMOK = "지목", KO_ZONING = "용도지역".
candidate_keys ==
    <<"JIMOK", "JIGU", "USEDSGN", "USE", "LAND_USE", "ZONING",
      "KO_JIMOK", "KO_ZONING">>

RECURSIVE ExtractFrom(_, _)
ExtractFrom(row, i) ==
    IF i > Len(candidate_keys) THEN None
    ELSE IF Truthy(Get(row, candidate_keys[i]))
         THEN Str(PyStr(Get(row, candidate_keys[i])))
         ELSE ExtractFrom(row, i + 1)

_extract_land_use(row) == ExtractFrom(row, 1)

(***************************************************************************)
(* Geometries and rows.  A geometry is what shapely reports of it:         *)
(* is_empty, area (area_ok FALSE: reading it raises) and the distance of   *)
(* its centroid to the station point (dist_ok FALSE: computing it raises). *)
(***************************************************************************)
NoGeometry ==
    [isnone |-> TRUE, is_empty |-> TRUE, area_ok |-> FALSE, area |-> 0,
     dist_ok |-> FALSE, dist |-> 0]
EmptyGeometry ==
    [isnone |-> FALSE, is_empty |-> TRUE, area_ok |-> TRUE, area |-> 0,
     dist_ok |-> TRUE, dist |-> 0]
Polygon(aok, a, dok, d) ==
    [isnone |-> FALSE, is_empty |-> FALSE, area_ok |-> aok, area |-> a,
     dist_ok |-> dok, dist |-> d]

Row(g, attrs) == [geometry |-> g, attrs |-> attrs]

\* abs(float(geometry.area)) * (METERS_PER_DEGREE ** 2), in 1e-4 m2:
\* 1e-10 deg2 * 111000^2 m2/deg2 = 111^2 * 1e-4 m2.
AreaM2(g) ==
    Abs(g.area) * (METERS_PER_DEGREE \div 1000) * (METERS_PER_DEGREE \div 1000)

\* geometry.centroid.distance(station_point) * METERS_PER_DEGREE, in 1e-2 m:
\* 1e-5 deg * 111000 m/deg = 111 * 1e-2 m.
DistanceM(g) == g.dist * (METERS_PER_DEGREE \div 1000)

\* row.get("JIBUN") or row.get("PNU") or row.get("LOTNO") or row.get("BUNJI")
RowLabel(row) ==
    IF Truthy(Get(row.attrs, "JIBUN")) THEN Get(row.attrs, "JIBUN")
    ELSE IF Truthy(Get(row.attrs, "PNU")) THEN Get(row.attrs, "PNU")
    ELSE IF Truthy(Get(row.attrs, "LOTNO")) THEN Get(row.attrs, "LOTNO")
    ELSE Get(row.attrs, "BUNJI")

(***************************************************************************)
(* collections.Counter.  bucket_counter is a function on the four bucket   *)
(* labels, 0 standing for a key that was never counted (a Counter never    *)
(* holds a counted key at 0 here); land_use_counter keeps its keys in      *)
(* insertion order, as a sequence of [use, count], because most_common     *)
(* depends on that order.                                                  *)
(***************************************************************************)
BucketSet == {Buckets[i] : i \in 1..Len(Buckets)}

EmptyCounter == [b \in BucketSet |-> 0]

CounterInc(c, k) == [c EXCEPT ![k] = @ + 1]

\* sum(bucket_counter.values())
CounterSum(c) == c["SMALL"] + c["MEDIUM"] + c["LARGE"] + c["XLARGE"]

IndexOfUse(oc, use) ==
    IF \E i \in 1..Len(oc) : oc[i].use = use
    THEN CHOOSE i \in 1..Len(oc) : oc[i].use = use
    ELSE 0

OrderedInc(oc, use) ==
    IF IndexOfUse(oc, use) = 0
    THEN Append(oc, [use |-> use, count |-> 1])
    ELSE [oc EXCEPT ![IndexOfUse(oc, use)].count = @ + 1]

RemoveAt(seq, i) == SubSeq(seq, 1, i - 1) \o SubSeq(seq, i + 1, Len(seq))

\* most_common with equal counts taken last-inserted first.
RECURSIVE most_common_last_tie(_, _)
most_common_last_tie(oc, n) ==
    IF n = 0 \/ Len(oc) = 0 THEN <<>>
    ELSE LET best == CHOOSE i \in 1..Len(oc) :
                        /\ \A j \in 1..Len(oc) : oc[j].count <= oc[i].count
                        /\ \A j \in (i + 1)..Len(oc) : oc[j].count < oc[i].count
         IN <<oc[best]>> \o most_common_last_tie(RemoveAt(oc, best), n - 1)

\* Counter.most_common(n): heapq.nlargest(n, items, key=count), which is
\* sorted(items, key=count, reverse=True)[:n]; the sort is stable, so equal
\* counts keep their insertion order.
RECURSIVE most_common(_, _)
most_common(oc, n) ==
    IF n = 0 \/ Len(oc) = 0 THEN <<>>
    ELSE LET best == CHOOSE i \in 1..Len(oc) :
                        /\ \A j \in 1..Len(oc) : oc[j].count <= oc[i].count
                        /\ \A j \in 1..(i - 1) : oc[j].count < oc[i].count
         IN <<oc[best]>> \o most_common(RemoveAt(oc, best), n - 1)

(***************************************************************************)
(* _summarise_nearby_parcels                                               *)
(***************************************************************************)
NoClosest == [isnone |-> TRUE, distance_m |-> 0, label |-> None]

NoSummary ==
    [isnone |-> TRUE, total_count |-> 0, total_area |-> 0,
     average_area |-> [num |-> 0, den |-> 1], bucket_counts |-> EmptyCounter,
     top_land_uses |-> <<>>, closest |-> NoClosest]

EmptyLocals ==
    [bucket_counter |-> EmptyCounter, total_area |-> 0, land_use_counter |-> <<>>,
     closest_info |-> NoClosest]

\* try: area_m2 = ... except Exception: area_m2 = 0.0
RowArea(g) == IF g.area_ok THEN AreaM2(g) ELSE 0

\* not closest_info or distance_m < closest_info.get("distance_m", inf)
Closer_or_equal(closest, distance_m) ==
    closest.isnone \/ distance_m <= closest.distance_m

Closer(closest, distance_m) ==
    closest.isnone \/ distance_m < closest.distance_m

\* One iteration that leaves the record out altogether ("continue") when its
\* area is not a positive measurement.
LoopBody_skipping_uncounted(loc, row) ==
    LET g == row.geometry
        area_m2 == RowArea(g)
        land_use == _extract_land_use(row.attrs)
        distance_m == DistanceM(g)
        closer == g.dist_ok /\ Closer(loc.closest_info, distance_m)
    IN IF g.isnone \/ g.is_empty \/ ~(area_m2 > 0) THEN loc
       ELSE [bucket_counter |->
                CounterInc(loc.bucket_counter, _classify_parcel_area(area_m2)),
             total_area |-> loc.total_area + area_m2,
             land_use_counter |->
                IF Truthy(land_use)
                THEN OrderedInc(loc.land_use_counter, land_use.s)
                ELSE loc.land_use_counter,
             closest_info |->
                IF closer
                THEN [isnone |-> FALSE, distance_m |-> distance_m,
                      label |-> RowLabel(row)]
                ELSE loc.closest_info]

\* One iteration of "for _, row in gdf.iterrows()" on the locals.
LoopBody(loc, row) ==
    LET g == row.geometry
        area_m2 == RowArea(g)
        land_use == _extract_land_use(row.attrs)
        distance_m == DistanceM(g)
        counted == area_m2 > 0
        closer == g.dist_ok /\ Closer(loc.closest_info, distance_m)
    IN IF g.isnone \/ g.is_empty THEN loc
       ELSE [bucket_counter |->
                IF counted
                THEN CounterInc(loc.bucket_counter, _classify_parcel_area(area_m2))
                ELSE loc.bucket_counter,
             total_area |->
                IF counted THEN loc.total_area + area_m2 ELSE loc.total_area,
             land_use_counter |->
                IF Truthy(land_use)
                THEN OrderedInc(loc.land_use_counter, land_use.s)
                ELSE loc.land_use_counter,
             closest_info |->
                IF closer
                THEN [isnone |-> FALSE, distance_m |-> distance_m,
                      label |-> RowLabel(row)]
                ELSE loc.closest_info]

\* The statements after the loop without "if total_count == 0: return None".
Finish_without_null_check(loc) ==
    [isnone |-> FALSE,
     total_count |-> CounterSum(loc.bucket_counter),
     total_area |-> loc.total_area,
     average_area |-> [num |-> loc.total_area,
                       den |-> CounterSum(loc.bucket_counter)],
     bucket_counts |-> loc.bucket_counter,
     top_land_uses |-> most_common(loc.land_use_counter, 3),
     closest |-> loc.closest_info]

\* The statements after the loop.
Finish(loc) ==
    LET total_count == CounterSum(loc.bucket_counter)
    IN IF total_count = 0 THEN NoSummary
       ELSE [isnone |-> FALSE,
             total_count |-> total_count,
             total_area |-> loc.total_area,
             average_area |-> [num |-> loc.total_area, den |-> total_count],
             bucket_counts |-> loc.bucket_counter,
             top_land_uses |-> most_common(loc.land_use_counter, 3),
             closest |-> loc.closest_info]

Locals ==
    [bucket_counter |-> bucket_counter, total_area |-> total_area,
     land_use_counter |-> land_use_counter, closest_info |-> closest_info]


(***************************************************************************)
(* Inputs of the geometry summary.  All rows of a frame have the same      *)
(* columns; a missing value is None, or NaN in a numeric column.           *)
(***************************************************************************)
Attrs(jimok, jigu, zoning, jibun, pnu, bunji) ==
    [JIMOK |-> jimok, JIGU |-> jigu, KO_ZONING |-> zoning,
     JIBUN |-> jibun, PNU |-> pnu, BUNJI |-> bunji]

RowNoGeometry ==
    Row(NoGeometry, Attrs(Str("A"), None, None, Str("1"), None, None))
RowEmptyGeometry ==
    Row(EmptyGeometry, Attrs(Str("B"), None, None, Str("2"), None, None))
RowAreaFails ==
    Row(Polygon(FALSE, 0, TRUE, 72),
        Attrs(None, Str("B"), None, Str(""), Str("P3"), None))
RowZeroArea ==
    Row(Polygon(TRUE, 0, FALSE, 0),
        Attrs(Str(""), None, Str("C"), None, None, Str("")))
RowSmall ==
    Row(Polygon(TRUE, 200, TRUE, 108),
        Attrs(Str("A"), Str("B"), None, Str("5"), Str("P5"), None))
RowMedium ==
    Row(Polygon(TRUE, 700, TRUE, 72),
        Attrs(PyInt(0), Str("D"), None, None, None, Str("6")))
RowLarge ==
    Row(Polygon(TRUE, 2000, TRUE, 72),
        Attrs(NaN, Str("A"), None, Str("7"), None, None))
RowXLarge ==
    Row(Polygon(TRUE, 3000, TRUE, 0),
        Attrs(Str("C"), None, Str("D"), Str("8"), None, None))

Rows ==
    {RowNoGeometry, RowEmptyGeometry, RowAreaFails, RowZeroArea, RowSmall,
     RowMedium, RowLarge, RowXLarge}

MaxRows == 4

RECURSIVE SeqsUpTo(_, _)
SeqsUpTo(S, n) ==
    IF n = 0 THEN {<<>>}
    ELSE LET shorter == SeqsUpTo(S, n - 1)
         IN shorter \cup {Append(q, x) : q \in shorter, x \in S}

\* A frame is None or a sequence of rows.
NoneFrame == [isnone |-> TRUE, rows |-> <<>>]
Frame(rows) == [isnone |-> FALSE, rows |-> rows]
Frames == {NoneFrame} \cup {Frame(q) : q \in SeqsUpTo(Rows, MaxRows)}

RECURSIVE LoopOver(_, _)
\* The whole loop on a sequence of rows.
LoopOver(loc, rows) ==
    IF Len(rows) = 0 THEN loc
    ELSE LoopOver(LoopBody(loc, rows[1]), Tail(rows))

\* The function as a whole, for the callers that pass its result on.
_summarise_nearby_parcels(frame) ==
    IF frame.isnone \/ Len(frame.rows) = 0 THEN NoSummary
    ELSE Finish(LoopOver(EmptyLocals, frame.rows))

(***************************************************************************)
(* _summarise_nearby_parcels as a process: entry test, one step per row,   *)
(* the statements after the loop.                                          *)
(***************************************************************************)
SumIdle ==
    /\ gdf = NoneFrame
    /\ row_idx = 0
    /\ bucket_counter = EmptyCounter
    /\ total_area = 0
    /\ land_use_counter = <<>>
    /\ closest_info = NoClosest
    /\ sum_pc = "idle"
    /\ sum_result = NoSummary

SumInit ==
    /\ gdf \in Frames
    /\ row_idx = 0
    /\ bucket_counter = EmptyCounter
    /\ total_area = 0
    /\ land_use_counter = <<>>
    /\ closest_info = NoClosest
    /\ sum_pc = "start"
    /\ sum_result = NoSummary

\* if gdf is None or getattr(gdf, "empty", True): return None
SumReturnEarly ==
    /\ sum_pc = "start"
    /\ gdf.isnone \/ Len(gdf.rows) = 0
    /\ sum_pc' = "done"
    /\ sum_result' = NoSummary
    /\ UNCHANGED <<gdf, row_idx, bucket_counter, total_area, land_use_counter,
                   closest_info>>
    /\ UNCHANGED notSum

SumEnterLoop ==
    /\ sum_pc = "start"
    /\ ~(gdf.isnone \/ Len(gdf.rows) = 0)
    /\ sum_pc' = "loop"
    /\ row_idx' = 1
    /\ UNCHANGED <<gdf, bucket_counter, total_area, land_use_counter,
                   closest_info, sum_result>>
    /\ UNCHANGED notSum

SumIterate ==
    /\ sum_pc = "loop"
    /\ row_idx <= Len(gdf.rows)
    /\ LET loc == LoopBody(Locals, gdf.rows[row_idx])
       IN /\ bucket_counter' = loc.bucket_counter
          /\ total_area' = loc.total_area
          /\ land_use_counter' = loc.land_use_counter
          /\ closest_info' = loc.closest_info
    /\ row_idx' = row_idx + 1
    /\ UNCHANGED <<gdf, sum_pc, sum_result>>
    /\ UNCHANGED notSum

SumFinish ==
    /\ sum_pc = "loop"
    /\ row_idx > Len(gdf.rows)
    /\ sum_result' = Finish(Locals)
    /\ sum_pc' = "done"
    /\ UNCHANGED <<gdf, row_idx, bucket_counter, total_area, land_use_counter,
                   closest_info>>
    /\ UNCHANGED notSum

SumNext == SumReturnEarly \/ SumEnterLoop \/ SumIterate \/ SumFinish

(***************************************************************************)
(* _classify_parcel_area on pairs of areas near the thresholds.            *)
(***************************************************************************)
Delta == 2

AreaSamples ==
    {0, 1, 5000 * M2}
    \cup {t * M2 + d : t \in {300, 1000, 3000}, d \in (0 - Delta)..Delta}

ClsIdle ==
    /\ cls_pc = "idle"
    /\ cls_a = 0
    /\ cls_b = 0
    /\ cls_ra = "SMALL"
    /\ cls_rb = "SMALL"

ClsInit ==
    /\ cls_pc = "start"
    /\ cls_a \in AreaSamples
    /\ cls_b \in AreaSamples
    /\ cls_ra = "SMALL"
    /\ cls_rb = "SMALL"

Classify ==
    /\ cls_pc = "start"
    /\ cls_ra' = _classify_parcel_area(cls_a)
    /\ cls_rb' = _classify_parcel_area(cls_b)
    /\ cls_pc' = "done"
    /\ UNCHANGED <<cls_a, cls_b>>
    /\ UNCHANGED notCls

ClsNext == Classify

(***************************************************************************)
(* report_service.py: routing                                              *)
(***************************************************************************)
ConfigKeys ==
    {"api_key", "base_url", "model", "timeout", "force_json", "temperature"}

\* The numeric literals among the strings of the model, in tenths.
NumericLiterals == ("10" :> 100) @@ ("0" :> 0) @@ ("0.7" :> 7)

\* float(value); ok is FALSE where Python raises TypeError or ValueError.
ToFloat(v) ==
    CASE v.t \in {"int", "bool"} -> [ok |-> TRUE, val |-> PyFloat(v.n * 10)]
      [] v.t \in {"float", "nan"} -> [ok |-> TRUE, val |-> v]
      [] v.t = "str" /\ v.s \in DOMAIN NumericLiterals ->
            [ok |-> TRUE, val |-> PyFloat(NumericLiterals[v.s])]
      [] OTHER -> [ok |-> FALSE, val |-> None]

\* str.lower() on the strings of the model.
Lowered == ("FALSE" :> "false") @@ ("False" :> "false") @@ ("No" :> "no")
           @@ ("YES" :> "yes") @@ ("True" :> "true")
Lower(str) == IF str \in DOMAIN Lowered THEN Lowered[str] ELSE str

_normalise_bool(value) ==
    IF value.t = "bool" THEN value
    ELSE IF value.t = "none" THEN PyBool(FALSE)
    ELSE PyBool(Lower(PyStr(value)) \notin {"false", "0", "no"})

\* An optional routing entry: dict.get(key).
NoEntry == [isnone |-> TRUE, entry |-> <<>>]
SomeEntry(e) == [isnone |-> FALSE, entry |-> e]
TableGet(table, key) ==
    IF key \in DOMAIN table THEN SomeEntry(table[key]) ELSE NoEntry

\* bool(candidate) of an optional dict
EntryTruthy(c) == ~c.isnone /\ DOMAIN c.entry # {}

\* a or b
PyOr(a, b) == IF EntryTruthy(a) THEN a ELSE b

\* self.routing_table.get("*") or self.routing_table.get("default")
\*     or self.routing_table.get("DEFAULT")
Wildcard(table) ==
    PyOr(PyOr(TableGet(table, "*"), TableGet(table, "default")),
         TableGet(table, "DEFAULT"))

\* The body of "for key, value in candidate.items()" for one key.
MergedValue(defaults, key, value) ==
    IF key \in {"timeout", "temperature"}
    THEN IF ToFloat(value).ok THEN ToFloat(value).val ELSE defaults[key]
    ELSE IF key = "force_json" THEN _normalise_bool(value)
    ELSE value

\* An absent station_id is None.
NoId == [isnone |-> TRUE, id |-> 0]
SomeId(i) == [isnone |-> FALSE, id |-> i]

_resolve_route(table, defaults, station_id) ==
    LET byId == IF station_id.isnone THEN NoEntry
                ELSE TableGet(table, ToString(station_id.id))
        candidate == IF byId.isnone THEN Wildcard(table) ELSE byId
    IN IF DOMAIN table = {} THEN defaults
       ELSE IF ~EntryTruthy(candidate) THEN defaults
       ELSE [k \in DOMAIN defaults \cup DOMAIN candidate.entry |->
                IF k \in DOMAIN candidate.entry
                THEN MergedValue(defaults, k, candidate.entry[k])
                ELSE defaults[k]]

\* The defaults dict built at the head of _resolve_route from the service.
Defaults(service) ==
    [api_key |-> service.api_key, base_url |-> service.base_url,
     model |-> service.model, timeout |-> service.timeout,
     force_json |-> service.force_json_response,
     temperature |-> service.temperature]

\* LLMReportService.__init__ with no arguments and none of LLM_API_URL,
\* LLM_MODEL, LLM_TIMEOUT, LLM_FORCE_JSON, LLM_TEMPERATURE in the
\* environment: the credential is the only default that may be missing.
Service(api_key) ==
    [api_key |-> api_key,
     base_url |-> Str("https://api.openai.com/v1/chat/completions"),
     model |-> Str("gpt-4o-mini"),
     timeout |-> PyFloat(300),
     force_json_response |-> PyBool(TRUE),
     temperature |-> PyFloat(3)]

ApiKeys == {None, Str(""), Str("sk-global")}

(***************************************************************************)
(* Routing tables: _load_routing_table keeps the dict-valued entries of a  *)
(* JSON object under their string keys.                                    *)
(***************************************************************************)
EmptyEntry == [k \in {} |-> None]
RouteEntries ==
    { EmptyEntry,
      [model |-> Str("x")],
      [timeout |-> PyInt(10)],
      [api_key |-> Str(""), model |-> Str("y")],
      [timeout |-> Str("soon"), temperature |-> Str("0.7"),
       force_json |-> Str("No"), note |-> Str("n")],
      [force_json |-> Str("maybe")],
      [force_json |-> None, temperature |-> None] }

RouteKeys == <<"42", "*", "default", "DEFAULT">>

\* The tables on the first n keys of RouteKeys, each absent or an entry.
RECURSIVE TablesOn(_)
TablesOn(n) ==
    IF n = 0 THEN {EmptyEntry}
    ELSE LET rest == TablesOn(n - 1)
         IN rest \cup {t @@ (RouteKeys[n] :> e) : t \in rest, e \in RouteEntries}

RoutingTables == TablesOn(Len(RouteKeys))
StationIds == {NoId, SomeId(42), SomeId(7)}

RtIdle ==
    /\ rt_pc = "idle"
    /\ rt_id = NoId
    /\ rt_out = Defaults(Service(None))

SvcIdle ==
    /\ svc = Service(None)
    /\ routing_table = EmptyEntry

RtInit ==
    /\ svc \in {Service(k) : k \in ApiKeys}
    /\ routing_table \in RoutingTables
    /\ rt_pc = "start"
    /\ rt_id \in StationIds
    /\ rt_out = Defaults(svc)

Resolve ==
    /\ rt_pc = "start"
    /\ rt_out' = _resolve_route(routing_table, Defaults(svc), rt_id)
    /\ rt_pc' = "done"
    /\ UNCHANGED <<svc, routing_table, rt_id>>
    /\ UNCHANGED notRoute

RtNext == Resolve

(***************************************************************************)
(* Text.  A text is a sequence of chunks (strings): a chunk is a single    *)
(* character, a field name, an input string or a literal of the source.    *)
(* The Korean literals of the report are written as ASCII glosses.         *)
(***************************************************************************)
Whitespace == {" ", "\n", "\t"}

RECURSIVE LStrip(_, _)
\* str.lstrip(chars)
LStrip(text, chars) ==
    IF Len(text) > 0 /\ text[1] \in chars THEN LStrip(Tail(text), chars)
    ELSE text

RECURSIVE RStrip(_, _)
\* str.rstrip(chars)
RStrip(text, chars) ==
    IF Len(text) > 0 /\ text[Len(text)] \in chars
    THEN RStrip(SubSeq(text, 1, Len(text) - 1), chars)
    ELSE text

\* str.strip(chars)
StripChars(text, chars) == RStrip(LStrip(text, chars), chars)
\* str.strip()
Strip(text) == StripChars(text, Whitespace)

\* A text is truthy when it has a chunk that is not the empty string.
TextTruthy(text) == \E i \in 1..Len(text) : text[i] # ""

\* format(x, ".0f") of the non-negative number num/den: the nearest integer,
\* a tie going to the even one.
Round0(num, den) ==
    LET q == num \div den
        r == num % den
    IN IF 2 * r < den THEN q
       ELSE IF 2 * r > den THEN q + 1
       ELSE IF q % 2 = 0 THEN q ELSE q + 1

\* a or b on scalars
Or(a, b) == IF Truthy(a) THEN a ELSE b

(***************************************************************************)
(* _describe_parcel_summary and _fallback_report                           *)
(***************************************************************************)
\* "반경 300m 내 필지 {total}개, 평균 면적 약 {average_area:.0f}㎡가 확인됩니다."
\* "면적 분포는 " ... " 수준입니다."    "소형 {small}개" ...
\* "주요 지목은 '{use}' 계열이 두드러집니다."
\* "지도 중심과 약 {distance:.0f}m 거리에 위치한 {label or '인접 필지'}가
\*  핵심 앵커로 활용될 수 있습니다."
BucketBit(counts, b) == <<b, " ", ToString(counts[b]), "EA">>

DistributionBits(counts) ==
    (IF counts["SMALL"] # 0 THEN <<BucketBit(counts, "SMALL")>> ELSE <<>>)
    \o (IF counts["MEDIUM"] # 0 THEN <<BucketBit(counts, "MEDIUM")>> ELSE <<>>)
    \o (IF counts["LARGE"] # 0 THEN <<BucketBit(counts, "LARGE")>> ELSE <<>>)
    \o (IF counts["XLARGE"] # 0 THEN <<BucketBit(counts, "XLARGE")>> ELSE <<>>)

RECURSIVE JoinTexts(_, _)
\* sep.join(texts) for texts that are themselves sequences of chunks
JoinTexts(texts, sep) ==
    IF Len(texts) = 0 THEN <<>>
    ELSE IF Len(texts) = 1 THEN texts[1]
    ELSE texts[1] \o <<sep>> \o JoinTexts(Tail(texts), sep)

\* The value is None when there is nothing to say: isnone.
NoPhrase == [isnone |-> TRUE, text |-> <<>>]

_describe_parcel_summary(parcel_summary) ==
    IF parcel_summary.isnone THEN NoPhrase
    ELSE IF parcel_summary.total_count = 0 THEN NoPhrase
    ELSE LET avg == parcel_summary.average_area
             counts == parcel_summary.bucket_counts
             bits == DistributionBits(counts)
             top == parcel_summary.top_land_uses
             closest == parcel_summary.closest
             head == <<"WITHIN_300M_PARCELS ",
                       ToString(parcel_summary.total_count),
                       "EA, AVERAGE_AREA_ABOUT ",
                       ToString(Round0(avg.num, avg.den * M2)),
                       "M2 CONFIRMED.">>
             distribution ==
                 IF Len(bits) > 0
                 THEN <<<<"AREA_DISTRIBUTION_IS ">> \o JoinTexts(bits, ", ")
                         \o <<" LEVEL.">>>>
                 ELSE <<>>
             lead ==
                 IF Len(top) > 0 /\ top[1].use # ""
                 THEN <<<<"MAIN_LAND_USE_IS '", top[1].use,
                          "' FAMILY_STANDS_OUT.">>>>
                 ELSE <<>>
             anchor ==
                 IF ~closest.isnone /\ closest.distance_m # 0
                 THEN <<<<"FROM_MAP_CENTRE_ABOUT ",
                          ToString(Round0(closest.distance_m, M1)),
                          "M AWAY ",
                          IF Truthy(closest.label) THEN PyStr(closest.label)
                          ELSE "ADJACENT_PARCEL",
                          " CAN_BE_KEY_ANCHOR.">>>>
                 ELSE <<>>
         IN [isnone |-> FALSE,
             text |-> JoinTexts(<<head>> \o distribution \o lead \o anchor, " ")]

\* The three fixed insights and the three fixed actions.
FixedInsights ==
    << <<"ANALYSE_COMMERCIAL_DENSITY_AND_TRANSPORT_ACCESS.">>,
       <<"REVIEW_LINK_WITH_MUNICIPAL_DEVELOPMENT_PLANS.">>,
       <<"MANAGE_CONSTRUCTION_SAFETY_ENVIRONMENT_ON_CONVERSION.">> >>

FixedActions ==
    << <<"CONFIRM_PERMIT_REQUIREMENTS_BY_SITE_SURVEY.">>,
       <<"COMPARE_PROFIT_INVESTMENT_DEMAND_BY_SCENARIO.">>,
       <<"PREPARE_COOPERATION_WITH_MUNICIPALITY_AND_STAKEHOLDERS.">> >>

Report(summary, insights, actions) ==
    [summary |-> summary, insights |-> insights, actions |-> actions]

\* The fallback with no insight at all when there is no recommendation.
fallback_without_fixed_insights(station, recommendations, parcel_summary) ==
    Report(<<"SITE_DIAGNOSIS">>,
           IF Len(recommendations) = 0 THEN <<>> ELSE FixedInsights,
           FixedActions)

\* Station keys: KO_NAME = "상호", KO_ADDRESS = "주소", KO_ZONING = "용도지역",
\* KO_LAND_USE = "토지용도", KO_JIMOK = "지목", KO_SITE_AREA = "대지면적",
\* KO_AREA = "면적".  Literals: THE_STATION = "해당 주유소", NO_INFO = "정보 없음".
_fallback_report(station, recommendations, parcel_summary) ==
    LET name == Or(Or(Get(station, "KO_NAME"), Get(station, "name")),
                   Str("THE_STATION"))
        address == Or(Or(Get(station, "KO_ADDRESS"), Get(station, "address")),
                      Str("-"))
        land_use == Or(Or(Or(Get(station, "KO_ZONING"),
                             Get(station, "KO_LAND_USE")),
                          Get(station, "KO_JIMOK")),
                       Str("NO_INFO"))
        area == Or(Or(Get(station, "KO_SITE_AREA"), Get(station, "KO_AREA")),
                   Get(station, "AREA"))
        parcel_phrase == _describe_parcel_summary(parcel_summary)
        summary_parts ==
            << <<PyStr(name), "(", PyStr(address), ") SITE_BASIC_DIAGNOSIS.">>,
               <<"MAIN_ZONING_IS '", PyStr(land_use),
                 "' CONSIDER_SURROUNDING_LAND_USE.">> >>
            \o (IF Truthy(area)
                THEN << <<"CONFIRMED_SITE_AREA: ", PyStr(area), ".">> >>
                ELSE <<>>)
            \o (IF ~parcel_phrase.isnone /\ TextTruthy(parcel_phrase.text)
                THEN <<parcel_phrase.text>>
                ELSE <<>>)
        top_type ==
            IF Len(recommendations) > 0
            THEN Or(Get(recommendations[1], "type"),
                    Get(recommendations[1], "usage_type"))
            ELSE None
        insights ==
            (IF Truthy(top_type)
             THEN << <<"PRIORITY_USE_IN_RECOMMENDATIONS_IS '", PyStr(top_type),
                       "' TYPE.">> >>
             ELSE <<>>)
            \o FixedInsights
    IN Report(JoinTexts(summary_parts, " "), insights, FixedActions)

(***************************************************************************)
(* The remote content and json.loads.  A content is a sequence of tokens:  *)
(* a character, or a JSON string literal with its text (Lit).  Letters and *)
(* digits outside string literals are written one character per token, so  *)
(* that strip and lstrip remove what they remove in Python.                *)
(***************************************************************************)
\* The backtick character, which a string of this module cannot hold.
Backtick == "BACKTICK"

Ch(c) == [c |-> c, str |-> <<>>]
Lit(text) == [c |-> "STR", str |-> text]
Chars(cs) == [i \in 1..Len(cs) |-> Ch(cs[i])]

\* str.strip(), str.strip(chars), str.lstrip(chars) on a content
RECURSIVE TokLStrip(_, _)
TokLStrip(toks, chars) ==
    IF Len(toks) > 0 /\ toks[1].c \in chars THEN TokLStrip(Tail(toks), chars)
    ELSE toks

RECURSIVE TokRStrip(_, _)
TokRStrip(toks, chars) ==
    IF Len(toks) > 0 /\ toks[Len(toks)].c \in chars
    THEN TokRStrip(SubSeq(toks, 1, Len(toks) - 1), chars)
    ELSE toks

TokStrip(toks, chars) == TokRStrip(TokLStrip(toks, chars), chars)

\* str.startswith(FENCE), FENCE being three backticks
StartsWithFence(toks) ==
    Len(toks) >= 3 /\ toks[1].c = Backtick /\ toks[2].c = Backtick /\ toks[3].c = Backtick

\* JSON values, all of one shape: t in null, bool, num, str, arr, obj; s the
\* text of a string; n the number or truth value; items the elements of an
\* array or the values of an object, whose keys are in keys.
JNull == [t |-> "null", s |-> <<>>, n |-> 0, items |-> <<>>, keys |-> <<>>]
JBool(b) == [JNull EXCEPT !.t = "bool", !.n = IF b THEN 1 ELSE 0]
JNum(k) == [JNull EXCEPT !.t = "num", !.n = k]
JString(text) == [JNull EXCEPT !.t = "str", !.s = text]
JArray(items) == [JNull EXCEPT !.t = "arr", !.items = items]
JObject(keys, items) == [JNull EXCEPT !.t = "obj", !.keys = keys, !.items = items]

Digits == <<"0", "1", "2", "3", "4", "5", "6", "7", "8", "9">>
IsDigit(c) == \E d \in 1..10 : Digits[d] = c
DigitValue(c) == (CHOOSE d \in 1..10 : Digits[d] = c) - 1

ParseFail == [ok |-> FALSE, val |-> JNull, next |-> 0]
Parsed(v, next) == [ok |-> TRUE, val |-> v, next |-> next]

RECURSIVE SkipWs(_, _)
SkipWs(toks, i) ==
    IF i <= Len(toks) /\ toks[i].c \in Whitespace THEN SkipWs(toks, i + 1)
    ELSE i

\* toks[i..] starts with the characters of word
StartsWord(toks, i, word) ==
    /\ i + Len(word) - 1 <= Len(toks)
    /\ \A k \in 1..Len(word) : toks[i + k - 1].c = word[k]

RECURSIVE ParseDigits(_, _, _)
ParseDigits(toks, i, acc) ==
    IF i <= Len(toks) /\ IsDigit(toks[i].c)
    THEN ParseDigits(toks, i + 1, 10 * acc + DigitValue(toks[i].c))
    ELSE Parsed(JNum(acc), i)

\* dict[key] = value: a repeated key keeps its place and takes the new value
ObjPut(obj, key, value) ==
    IF \E k \in 1..Len(obj.keys) : obj.keys[k] = key
    THEN LET at == CHOOSE k \in 1..Len(obj.keys) : obj.keys[k] = key
         IN [obj EXCEPT !.items[at] = value]
    ELSE [obj EXCEPT !.keys = Append(@, key), !.items = Append(@, value)]

RECURSIVE ParseValue(_, _)
RECURSIVE ParseElements(_, _, _)
RECURSIVE ParseMembers(_, _, _)

\* The elements of an array from toks[i] on, after "[" or ",".
ParseElements(toks, i, acc) ==
    LET v == ParseValue(toks, SkipWs(toks, i))
        j == SkipWs(toks, v.next)
    IN IF ~v.ok \/ j > Len(toks) THEN ParseFail
       ELSE IF toks[j].c = "," THEN ParseElements(toks, j + 1, Append(acc, v.val))
       ELSE IF toks[j].c = "]" THEN Parsed(JArray(Append(acc, v.val)), j + 1)
       ELSE ParseFail

\* The members of an object from toks[i] on, after "{" or ",".
ParseMembers(toks, i, obj) ==
    LET k == SkipWs(toks, i)
        c == SkipWs(toks, k + 1)
        v == ParseValue(toks, SkipWs(toks, c + 1))
        j == SkipWs(toks, v.next)
    IN IF k > Len(toks) \/ toks[k].c # "STR" THEN ParseFail
       ELSE IF c > Len(toks) \/ toks[c].c # ":" THEN ParseFail
       ELSE IF ~v.ok \/ j > Len(toks) THEN ParseFail
       ELSE IF toks[j].c = ","
            THEN ParseMembers(toks, j + 1, ObjPut(obj, toks[k].str, v.val))
       ELSE IF toks[j].c = "}"
            THEN Parsed(ObjPut(obj, toks[k].str, v.val), j + 1)
       ELSE ParseFail

ParseValue(toks, i) ==
    IF i > Len(toks) THEN ParseFail
    ELSE LET c == toks[i].c
             j == SkipWs(toks, i + 1)
         IN CASE c = "STR" -> Parsed(JString(toks[i].str), i + 1)
              [] c = "{" ->
                    IF j <= Len(toks) /\ toks[j].c = "}"
                    THEN Parsed(JObject(<<>>, <<>>), j + 1)
                    ELSE ParseMembers(toks, i + 1, JObject(<<>>, <<>>))
              [] c = "[" ->
                    IF j <= Len(toks) /\ toks[j].c = "]"
                    THEN Parsed(JArray(<<>>), j + 1)
                    ELSE ParseElements(toks, i + 1, <<>>)
              [] IsDigit(c) -> ParseDigits(toks, i, 0)
              [] StartsWord(toks, i, <<"n", "u", "l", "l">>) ->
                    Parsed(JNull, i + 4)
              [] StartsWord(toks, i, <<"t", "r", "u", "e">>) ->
                    Parsed(JBool(TRUE), i + 4)
              [] StartsWord(toks, i, <<"f", "a", "l", "s", "e">>) ->
                    Parsed(JBool(FALSE), i + 5)
              [] OTHER -> ParseFail

\* json.loads(text): ok is FALSE where it raises JSONDecodeError.
JsonLoads(toks) ==
    LET v == ParseValue(toks, SkipWs(toks, 1))
    IN IF v.ok /\ SkipWs(toks, v.next) > Len(toks) THEN v ELSE ParseFail

(***************************************************************************)
(* _parse_llm_response                                                     *)
(***************************************************************************)
\* str(value) of a JSON value, as a text.
JStr(v) ==
    CASE v.t = "str" -> v.s
      [] v.t = "null" -> <<"None">>
      [] v.t = "bool" -> IF v.n = 1 THEN <<"True">> ELSE <<"False">>
      [] v.t = "num" -> <<ToString(v.n)>>
      [] v.t = "arr" -> IF Len(v.items) = 0 THEN <<"[]">> ELSE <<"[...]">>
      [] OTHER -> IF Len(v.keys) = 0 THEN <<"{}">> ELSE <<"{...}">>

\* What "for item in value" goes through; ok is FALSE where it raises
\* TypeError (None, a number, a boolean).
Iterate(v) ==
    CASE v.t = "arr" -> [ok |-> TRUE, items |-> v.items]
      [] v.t = "str" ->
            [ok |-> TRUE, items |-> [i \in 1..Len(v.s) |-> JString(<<v.s[i]>>)]]
      [] v.t = "obj" ->
            [ok |-> TRUE, items |-> [i \in 1..Len(v.keys) |-> JString(v.keys[i])]]
      [] OTHER -> [ok |-> FALSE, items |-> <<>>]

\* data.get(key, default)
ObjGet(obj, key, default) ==
    IF \E k \in 1..Len(obj.keys) : obj.keys[k] = key
    THEN obj.items[CHOOSE k \in 1..Len(obj.keys) : obj.keys[k] = key]
    ELSE default

RECURSIVE StrippedNonEmpty(_)
\* [str(item).strip() for item in items if str(item).strip()]
StrippedNonEmpty(items) ==
    IF Len(items) = 0 THEN <<>>
    ELSE LET text == Strip(JStr(items[1]))
         IN (IF TextTruthy(text) THEN <<text>> ELSE <<>>)
            \o StrippedNonEmpty(Tail(items))

\* The result of _parse_llm_response: raised (an exception leaves the
\* method), else isnone (None), else the report.
NoReport == Report(<<>>, <<>>, <<>>)
ParseRaised == [raised |-> TRUE, isnone |-> FALSE, report |-> NoReport]
ParseNone == [raised |-> FALSE, isnone |-> TRUE, report |-> NoReport]
ParseOk(r) == [raised |-> FALSE, isnone |-> FALSE, report |-> r]

\* cleaned = content.strip(); if cleaned.startswith(FENCE):
\*     cleaned = cleaned.strip(BACKTICK).lstrip("json").strip()
Cleaned(content) ==
    LET cleaned == TokStrip(content, Whitespace)
    IN IF StartsWithFence(cleaned)
       THEN TokStrip(TokLStrip(TokStrip(cleaned, {Backtick}), {"j", "s", "o", "n"}),
                     Whitespace)
       ELSE cleaned

\* The parse that treats a value of the wrong shape as an absent one: None
\* where _parse_llm_response raises.
ParseGuardingShapes(content) ==
    LET loaded == JsonLoads(Cleaned(content))
        data == loaded.val
        insights == Iterate(ObjGet(data, <<"insights">>, JArray(<<>>)))
        actions == Iterate(ObjGet(data, <<"actions">>, JArray(<<>>)))
        r == Report(Strip(JStr(ObjGet(data, <<"summary">>, JString(<<>>)))),
                    StrippedNonEmpty(insights.items),
                    StrippedNonEmpty(actions.items))
    IN IF ~loaded.ok \/ data.t # "obj" \/ ~insights.ok \/ ~actions.ok
       THEN ParseNone
       ELSE IF ~TextTruthy(r.summary) /\ Len(r.insights) = 0 /\ Len(r.actions) = 0
       THEN ParseNone
       ELSE ParseOk(r)

_parse_llm_response(content) ==
    LET loaded == JsonLoads(Cleaned(content))
        data == loaded.val
        summary == Strip(JStr(ObjGet(data, <<"summary">>, JString(<<>>))))
        insights == Iterate(ObjGet(data, <<"insights">>, JArray(<<>>)))
        actions == Iterate(ObjGet(data, <<"actions">>, JArray(<<>>)))
    IN IF ~loaded.ok THEN ParseNone
       \* data.get on a value that is not a dict: AttributeError
       ELSE IF data.t # "obj" THEN ParseRaised
       \* iterating None, a number or a boolean: TypeError
       ELSE IF ~insights.ok \/ ~actions.ok THEN ParseRaised
       ELSE IF /\ ~TextTruthy(summary)
               /\ Len(StrippedNonEmpty(insights.items)) = 0
               /\ Len(StrippedNonEmpty(actions.items)) = 0
       THEN ParseNone
       ELSE ParseOk(Report(summary, StrippedNonEmpty(insights.items),
                           StrippedNonEmpty(actions.items)))

(***************************************************************************)
(* The contents a remote model may answer with.                            *)
(***************************************************************************)
RECURSIVE Separated(_, _)
\* The token sequences of parts with the character sep between them.
Separated(parts, sep) ==
    IF Len(parts) = 0 THEN <<>>
    ELSE IF Len(parts) = 1 THEN parts[1]
    ELSE parts[1] \o <<Ch(sep)>> \o Separated(Tail(parts), sep)

ArrayToks(elems) == <<Ch("[")>> \o Separated(elems, ",") \o <<Ch("]")>>
Member(key, value) == <<Lit(<<key>>), Ch(":")>> \o value
ObjectToks(members) == <<Ch("{")>> \o Separated(members, ",") \o <<Ch("}")>>
StrTok(text) == <<Lit(text)>>
NullTok == Chars(<<"n", "u", "l", "l">>)
Fence == Chars(<<Backtick, Backtick, Backtick>>)

\* {"summary":"s","insights":[],"actions":[]}
ExampleObject ==
    ObjectToks(<<Member("summary", StrTok(<<"s">>)),
                 Member("insights", ArrayToks(<<>>)),
                 Member("actions", ArrayToks(<<>>))>>)

Contents ==
    { \* {"summary":"s","insights":["a"," b ",""],"actions":["c"]}
      ObjectToks(<<Member("summary", StrTok(<<"s">>)),
                   Member("insights", ArrayToks(<<StrTok(<<"a">>),
                                                  StrTok(<<" ", "b", " ">>),
                                                  StrTok(<<>>)>>)),
                   Member("actions", ArrayToks(<<StrTok(<<"c">>)>>))>>),
      \* FENCE json \n {"summary":"s","insights":[],"actions":[]} \n FENCE
      Fence \o Chars(<<"j", "s", "o", "n", "\n">>) \o ExampleObject
            \o Chars(<<"\n">>) \o Fence,
      \* FENCE \n {...} \n FENCE
      Fence \o Chars(<<"\n">>) \o ExampleObject \o Chars(<<"\n">>) \o Fence,
      \* FENCE JSON \n {...} \n FENCE
      Fence \o Chars(<<"J", "S", "O", "N", "\n">>) \o ExampleObject
            \o Chars(<<"\n">>) \o Fence,
      \* FENCE null FENCE
      Fence \o NullTok \o Fence,
      \* {"summary":"","insights":[],"actions":[]}
      ObjectToks(<<Member("summary", StrTok(<<>>)),
                   Member("insights", ArrayToks(<<>>)),
                   Member("actions", ArrayToks(<<>>))>>),
      \* {"summary":" ","insights":[" "],"actions":[""]}
      ObjectToks(<<Member("summary", StrTok(<<" ">>)),
                   Member("insights", ArrayToks(<<StrTok(<<" ">>)>>)),
                   Member("actions", ArrayToks(<<StrTok(<<>>)>>))>>),
      \* {}
      ObjectToks(<<>>),
      \* {} x
      ObjectToks(<<>>) \o Chars(<<" ", "x">>),
      \* Sorry
      Chars(<<"S", "o", "r", "r", "y">>),
      \* [1]
      ArrayToks(<<Chars(<<"1">>)>>),
      \* null
      NullTok,
      \* "abc"
      StrTok(<<"a", "b", "c">>),
      \* {"insights": null}
      ObjectToks(<<Member("insights", Chars(<<" ">>) \o NullTok)>>),
      \* {"actions":5}
      ObjectToks(<<Member("actions", Chars(<<"5">>))>>),
      \* {"summary":null}
      ObjectToks(<<Member("summary", NullTok)>>),
      \* {"insights":"ab"}
      ObjectToks(<<Member("insights", StrTok(<<"a", "b">>))>>),
      \* {"insights":[null," ","",0," x "]}
      ObjectToks(<<Member("insights",
                          ArrayToks(<<NullTok, StrTok(<<" ">>), StrTok(<<>>),
                                      Chars(<<"0">>),
                                      StrTok(<<" ", "x", " ">>)>>))>>),
      \* whitespace only, and nothing at all
      Chars(<<" ", "\n">>),
      <<>> }

(***************************************************************************)
(* generate_report and _request_llm                                        *)
(***************************************************************************)
\* What the remote end does with the one request, by the statement of
\* _request_llm's try block that it makes raise or return:
\*   connect_error, timeout   client.post raises
\*   http_error               response.raise_for_status raises
\*   body_not_json            response.json raises
\*   body_not_object          data.get raises
\*   no_choices               "if not choices: return None"
\*   content_not_text         choices[0]...get("content") is no string
\*   content                  a string content
FailureKinds ==
    {"connect_error", "timeout", "http_error", "body_not_json",
     "body_not_object", "no_choices", "content_not_text"}

Outcome(kind, content) == [kind |-> kind, content |-> content]
Outcomes ==
    {Outcome(k, <<>>) : k \in FailureKinds}
    \cup {Outcome("content", c) : c \in Contents}
NoOutcome == Outcome("none", <<>>)

\* An optional content: the Optional[str] that _request_llm returns.
NoResponse == [isnone |-> TRUE, content |-> <<>>]
SomeResponse(c) == [isnone |-> FALSE, content |-> c]

\* The try block of _request_llm on what the remote end did:
\* "return content.strip() or None", None after any exception.
ResponseOf(outcome) ==
    IF outcome.kind # "content" THEN NoResponse
    ELSE IF Len(TokStrip(outcome.content, Whitespace)) = 0 THEN NoResponse
    ELSE SomeResponse(TokStrip(outcome.content, Whitespace))

\* The credential read from the service instead of the resolved route.
Credential_of_service(config) == svc.api_key

\* api_key = route_config.get("api_key")
Credential(config) == Get(config, "api_key")

\* The request posted; its messages depend on the arguments only and are
\* read by no later step.
NoRequest ==
    [posted |-> FALSE, url |-> None, authorization |-> None, model |-> None,
     temperature |-> None, timeout |-> None, json_object |-> FALSE]
RequestOf(config) ==
    [posted |-> TRUE,
     url |-> Get(config, "base_url"),
     authorization |-> Credential(config),
     model |-> Get(config, "model"),
     temperature |-> Get(config, "temperature"),
     timeout |-> Get(config, "timeout"),
     json_object |-> Truthy(Get(config, "force_json"))]

\* Where the call goes once the try block is left, with a second attempt
\* after a failure.
AfterRequest_retry(response) == IF response.isnone THEN "request" ELSE "check"

\* Where the call goes once the try block is left: back in generate_report,
\* at "if llm_response".
AfterRequest(response) == "check"

NoResult == [kind |-> "none", report |-> NoReport]
Returns(r) == [kind |-> "report", report |-> r]
Raises == [kind |-> "raised", report |-> NoReport]

(***************************************************************************)
(* Arguments of generate_report.                                           *)
(***************************************************************************)
Stations ==
    { EmptyEntry,
      [KO_NAME |-> Str("GS"), KO_ADDRESS |-> Str("Seoul"),
       KO_ZONING |-> Str("COMMERCIAL"), KO_SITE_AREA |-> PyInt(500)],
      [KO_NAME |-> Str(""), name |-> Str("N"), address |-> None,
       KO_JIMOK |-> Str("J"), KO_AREA |-> PyFloat(0), AREA |-> Str("330")] }

RecommendationLists ==
    { <<>>,
      <<[type |-> Str("cafe"), score |-> PyFloat(9)]>>,
      <<[type |-> Str(""), usage_type |-> Str("park")], [type |-> Str("x")]>>,
      <<[score |-> PyFloat(7)]>> }

ParcelSummaries ==
    { NoSummary,
      _summarise_nearby_parcels(Frame(<<RowSmall, RowMedium, RowAreaFails>>)),
      _summarise_nearby_parcels(Frame(<<RowXLarge, RowLarge, RowZeroArea>>)) }

ReportTables ==
    { EmptyEntry,
      ("42" :> [api_key |-> Str("")]) @@ ("*" :> [model |-> Str("x")]),
      ("*" :> [api_key |-> Str("sk-route")]),
      ("7" :> [api_key |-> None, timeout |-> PyInt(10)]) }

\* The failed calls are counted up to MaxFailed.
MaxFailed == 2

RpIdle ==
    /\ rp_station = EmptyEntry
    /\ rp_recommendations = <<>>
    /\ rp_parcel_summary = NoSummary
    /\ rp_station_id = NoId
    /\ rp_pc = "off"
    /\ route_config = Defaults(Service(None))
    /\ request = NoRequest
    /\ remote = NoOutcome
    /\ llm_response = NoResponse
    /\ result = NoResult
    /\ calls = 0
    /\ events = <<>>
    /\ failed_reports = {}
    /\ failed_calls = 0

RpInit ==
    /\ svc \in {Service(k) : k \in ApiKeys}
    /\ routing_table \in ReportTables
    /\ rp_station \in Stations
    /\ rp_recommendations \in RecommendationLists
    /\ rp_parcel_summary \in ParcelSummaries
    /\ rp_station_id = NoId
    /\ rp_pc = "idle"
    /\ route_config = Defaults(svc)
    /\ request = NoRequest
    /\ remote = NoOutcome
    /\ llm_response = NoResponse
    /\ result = NoResult
    /\ calls = 0
    /\ events = <<>>
    /\ failed_reports = {}
    /\ failed_calls = 0

rpArgs ==
    <<svc, routing_table, rp_station, rp_recommendations, rp_parcel_summary>>

\* generate_report is called: route_config = self._resolve_route(station_id)
GenerateReport ==
    /\ rp_pc = "idle"
    /\ \E id \in StationIds :
          /\ rp_station_id' = id
          /\ route_config' = _resolve_route(routing_table, Defaults(svc), id)
    /\ rp_pc' = "request"
    /\ request' = NoRequest
    /\ remote' = NoOutcome
    /\ llm_response' = NoResponse
    /\ result' = NoResult
    /\ calls' = 0
    /\ events' = <<"resolve">>
    /\ UNCHANGED <<rpArgs, failed_reports, failed_calls>>
    /\ UNCHANGED notReport

\* _request_llm: "if not api_key: return None"
RequestWithoutCredential ==
    /\ rp_pc = "request"
    /\ ~Truthy(Credential(route_config))
    /\ llm_response' = NoResponse
    /\ rp_pc' = "check"
    /\ UNCHANGED <<rpArgs, rp_station_id, route_config, request, remote, result,
                   calls, events, failed_reports, failed_calls>>
    /\ UNCHANGED notReport

\* _request_llm: the request is built and client.post is awaited
Post ==
    /\ rp_pc = "request"
    /\ Truthy(Credential(route_config))
    /\ request' = RequestOf(route_config)
    /\ calls' = calls + 1
    /\ events' = Append(events, "post")
    /\ rp_pc' = "await"
    /\ UNCHANGED <<rpArgs, rp_station_id, route_config, remote, llm_response,
                   result, failed_reports, failed_calls>>
    /\ UNCHANGED notReport

\* _request_llm: the rest of the try block, on whatever the remote end did
Respond ==
    /\ rp_pc = "await"
    /\ \E outcome \in Outcomes :
          /\ remote' = outcome
          /\ llm_response' = ResponseOf(outcome)
          /\ rp_pc' = AfterRequest(ResponseOf(outcome))
    /\ UNCHANGED <<rpArgs, rp_station_id, route_config, request, result, calls,
                   events, failed_reports, failed_calls>>
    /\ UNCHANGED notReport

\* The remote call was made and gave no content.
RemoteFailed == calls > 0 /\ llm_response.isnone

\* generate_report: no llm_response, "return self._fallback_report(...)"
FallbackWithoutResponse ==
    /\ rp_pc = "check"
    /\ llm_response.isnone
    /\ LET r == _fallback_report(rp_station, rp_recommendations,
                                 rp_parcel_summary)
       IN /\ result' = Returns(r)
          /\ failed_reports' =
                IF RemoteFailed THEN failed_reports \cup {r} ELSE failed_reports
          /\ failed_calls' =
                IF RemoteFailed /\ failed_calls < MaxFailed
                THEN failed_calls + 1 ELSE failed_calls
    /\ events' = Append(events, "fallback")
    /\ rp_pc' = "done"
    /\ UNCHANGED <<rpArgs, rp_station_id, route_config, request, remote,
                   llm_response, calls>>
    /\ UNCHANGED notReport

\* generate_report: _parse_llm_response raises
ParseRaises ==
    /\ rp_pc = "check"
    /\ ~llm_response.isnone
    /\ _parse_llm_response(llm_response.content).raised
    /\ result' = Raises
    /\ events' = Append(events, "parse")
    /\ rp_pc' = "done"
    /\ UNCHANGED <<rpArgs, rp_station_id, route_config, request, remote,
                   llm_response, calls, failed_reports, failed_calls>>
    /\ UNCHANGED notReport

\* generate_report: "if parsed: return parsed"
ReturnParsed ==
    /\ rp_pc = "check"
    /\ ~llm_response.isnone
    /\ LET parsed == _parse_llm_response(llm_response.content)
       IN /\ ~parsed.raised /\ ~parsed.isnone
          /\ result' = Returns(parsed.report)
    /\ events' = Append(events, "parse")
    /\ rp_pc' = "done"
    /\ UNCHANGED <<rpArgs, rp_station_id, route_config, request, remote,
                   llm_response, calls, failed_reports, failed_calls>>
    /\ UNCHANGED notReport

\* generate_report: parsed is None, "return self._fallback_report(...)"
FallbackAfterParse ==
    /\ rp_pc = "check"
    /\ ~llm_response.isnone
    /\ LET parsed == _parse_llm_response(llm_response.content)
       IN ~parsed.raised /\ parsed.isnone
    /\ result' = Returns(_fallback_report(rp_station, rp_recommendations,
                                          rp_parcel_summary))
    /\ events' = Append(Append(events, "parse"), "fallback")
    /\ rp_pc' = "done"
    /\ UNCHANGED <<rpArgs, rp_station_id, route_config, request, remote,
                   llm_response, calls, failed_reports, failed_calls>>
    /\ UNCHANGED notReport

\* The caller has the result (or the exception); the next request may come.
NextRequest ==
    /\ rp_pc = "done"
    /\ rp_pc' = "idle"
    /\ UNCHANGED <<rpArgs, rp_station_id, route_config, request, remote,
                   llm_response, result, calls, events, failed_reports,
                   failed_calls>>
    /\ UNCHANGED notReport

RpNext ==
    \/ GenerateReport
    \/ RequestWithoutCredential
    \/ Post
    \/ Respond
    \/ FallbackWithoutResponse
    \/ ParseRaises
    \/ ReturnParsed
    \/ FallbackAfterParse
    \/ NextRequest

(***************************************************************************)
(* app/services/parcel_service.py: ParcelService.                          *)
(*                                                                         *)
(* The base directory holds entries named by region code.  What is on     *)
(* disk under a name decides how far load_parcels gets:                    *)
(*   absent        no entry of that name                                   *)
(*   file          an entry that is no directory                           *)
(*   no_shp        a directory without a .shp file                         *)
(*   unreadable    a directory whose .shp file gpd.read_file or to_crs     *)
(*                 rejects                                                 *)
(*   empty         a directory whose .shp file holds no record             *)
(*   data          a directory whose .shp file holds the region's records  *)
(*   bad_geometry  as data, with geometry on which distance() raises       *)
(* A record lies at a coordinate x, and the search point at a coordinate;  *)
(* both in units of 0.001 degree.                                          *)
(***************************************************************************)
\* The names in the order sorted(self.base_dir.iterdir()) lists them.
RegionNames == <<"11", "26", "41">>
Regions == {RegionNames[i] : i \in 1..Len(RegionNames)}

ParcelRecord(region, x) == [region |-> region, x |-> x]
GeoDataFrame(records, distance_ok) ==
    [records |-> records, distance_ok |-> distance_ok]
EmptyFrame == GeoDataFrame(<<>>, TRUE)

\* The records of each region's source file.
SourceRecords(name) ==
    CASE name = "11" ->
            <<ParcelRecord("11", 0), ParcelRecord("11", 3), ParcelRecord("11", 4)>>
      [] name = "26" -> <<ParcelRecord("26", 1), ParcelRecord("26", 10)>>
      [] OTHER -> <<ParcelRecord("41", 2)>>

\* gpd.read_file(shp_path).to_crs(epsg=4326) where it succeeds.
ReadFile(name, kind) ==
    IF kind = "empty" THEN EmptyFrame
    ELSE GeoDataFrame(SourceRecords(name), kind # "bad_geometry")

\* The base directory: missing, a directory with its entries, or a path
\* that exists and is no directory (kind "missing", "dir", "file").
BaseDir(kind, entries) == [kind |-> kind, entries |-> entries]
NoEntries == [n \in Regions |-> "absent"]

\* What is on disk at base_dir / sidocode.
Folder(base, sidocode) ==
    IF base.kind = "dir" /\ sidocode \in DOMAIN base.entries
    THEN base.entries[sidocode]
    ELSE "absent"

\* ParcelService.__init__
NewParcelService ==
    [cache |-> <<>>, is_loaded |-> FALSE, last_error |-> None]

\* The cache is a dict: items in insertion order.
CacheIndex(cache, sidocode) ==
    IF \E i \in 1..Len(cache) : cache[i].code = sidocode
    THEN CHOOSE i \in 1..Len(cache) : cache[i].code = sidocode
    ELSE 0
InCache(cache, sidocode) == CacheIndex(cache, sidocode) # 0
CacheGet(cache, sidocode) == cache[CacheIndex(cache, sidocode)].gdf
\* An insertion that extends the frame already cached under the code.
CachePut_extending(cache, sidocode, frame) ==
    IF InCache(cache, sidocode)
    THEN [cache EXCEPT ![CacheIndex(cache, sidocode)].gdf.records =
                            @ \o frame.records]
    ELSE Append(cache, [code |-> sidocode, gdf |-> frame])
CachePut(cache, sidocode, frame) ==
    IF InCache(cache, sidocode)
    THEN [cache EXCEPT ![CacheIndex(cache, sidocode)].gdf = frame]
    ELSE Append(cache, [code |-> sidocode, gdf |-> frame])

\* The is_loaded property.
is_loaded(self) == self.is_loaded /\ Len(self.cache) > 0

\* _record_error
_record_error(self, message) == [self EXCEPT !.last_error = Str(message)]

\* The insertion that sets the flag for an empty frame too.
StoreParcels_flagging_empty(self, sidocode, frame) ==
    [self EXCEPT !.cache = CachePut(self.cache, sidocode, frame),
                 !.is_loaded = TRUE,
                 !.last_error = None]

\* The second half of load_parcels: the frame read is put in the cache.
StoreParcels(self, sidocode, frame) ==
    [self EXCEPT !.cache = CachePut(self.cache, sidocode, frame),
                 !.is_loaded = IF Len(frame.records) > 0 THEN TRUE ELSE @,
                 !.last_error = IF Len(frame.records) > 0 THEN None ELSE @]

\* How load_parcels ends on an uncached code: FileNotFoundError, another
\* exception out of the reader, or a frame.
LoadOutcome(base, sidocode) ==
    CASE Folder(base, sidocode) \in {"absent", "file", "no_shp"} -> "not_found"
      [] Folder(base, sidocode) = "unreadable" -> "error"
      [] OTHER -> "ok"

\* load_parcels without the look in the cache: the source is read on every
\* call.
load_parcels_rereading(self, base, sidocode) ==
    IF LoadOutcome(base, sidocode) = "not_found"
    THEN [self |-> self, outcome |-> "not_found", gdf |-> EmptyFrame,
          reads |-> <<>>]
    ELSE IF LoadOutcome(base, sidocode) = "error"
    THEN [self |-> self, outcome |-> "error", gdf |-> EmptyFrame,
          reads |-> <<sidocode>>]
    ELSE LET frame == ReadFile(sidocode, Folder(base, sidocode))
         IN [self |-> StoreParcels(self, sidocode, frame), outcome |-> "ok",
             gdf |-> frame, reads |-> <<sidocode>>]

\* load_parcels: the service afterwards, how the call ended, the frame
\* returned and the source files read.
load_parcels(self, base, sidocode) ==
    IF InCache(self.cache, sidocode)
    THEN [self |-> self, outcome |-> "ok",
          gdf |-> CacheGet(self.cache, sidocode), reads |-> <<>>]
    ELSE IF LoadOutcome(base, sidocode) = "not_found"
    THEN [self |-> self, outcome |-> "not_found", gdf |-> EmptyFrame,
          reads |-> <<>>]
    ELSE IF LoadOutcome(base, sidocode) = "error"
    THEN [self |-> self, outcome |-> "error", gdf |-> EmptyFrame,
          reads |-> <<sidocode>>]
    ELSE LET frame == ReadFile(sidocode, Folder(base, sidocode))
         IN [self |-> StoreParcels(self, sidocode, frame), outcome |-> "ok",
             gdf |-> frame, reads |-> <<sidocode>>]

\* The diagnostics: BASE_DIR_MISSING, LOAD_FAILED(name),
\* NO_DATASET_AVAILABLE and DISTANCE_FAILED(code) stand for the source's
\* Korean messages.
LoadFailed(name) == "LOAD_FAILED(" \o name \o ")"
DistanceFailed(sidocode) == "DISTANCE_FAILED(" \o sidocode \o ")"

RECURSIVE EnsureLoop(_, _, _, _)
\* "for entry in sorted(self.base_dir.iterdir())" from the i-th name on;
\* run holds the service and what the loop did so far.
EnsureLoop(run, base, i, names) ==
    IF i > Len(names)
    THEN IF Len(run.self.cache) = 0
         THEN [run EXCEPT
                 !.self = _record_error(@, "NO_DATASET_AVAILABLE"),
                 !.diagnostics = Append(@, "NO_DATASET_AVAILABLE")]
         ELSE run
    ELSE IF Folder(base, names[i]) \in {"absent", "file"}
    THEN EnsureLoop(run, base, i + 1, names)
    ELSE LET loaded == load_parcels(run.self, base, names[i])
             tried == [run EXCEPT !.attempted = Append(@, names[i]),
                                  !.reads = @ \o loaded.reads]
         IN IF loaded.outcome = "ok"
            THEN [tried EXCEPT !.self = loaded.self]
            ELSE EnsureLoop(
                    [tried EXCEPT
                       !.self = _record_error(loaded.self, LoadFailed(names[i])),
                       !.diagnostics = Append(@, LoadFailed(names[i]))],
                    base, i + 1, names)

\* _ensure_any_dataset without "if self.cache: return".
ensure_on_every_call(self, base) ==
    LET run == [self |-> self, attempted |-> <<>>, diagnostics |-> <<>>,
                reads |-> <<>>, raised |-> FALSE]
    IN IF base.kind = "missing"
       THEN [run EXCEPT !.self = _record_error(@, "BASE_DIR_MISSING"),
                        !.diagnostics = Append(@, "BASE_DIR_MISSING")]
       ELSE IF base.kind = "file" THEN [run EXCEPT !.raised = TRUE]
       ELSE EnsureLoop(run, base, 1, RegionNames)

\* _ensure_any_dataset: the service afterwards, the names whose load was
\* attempted, the diagnostics recorded and the source files read, in order,
\* and whether an exception left the method.
_ensure_any_dataset(self, base) ==
    LET run == [self |-> self, attempted |-> <<>>, diagnostics |-> <<>>,
                reads |-> <<>>, raised |-> FALSE]
    IN IF Len(self.cache) > 0 THEN run
       ELSE IF base.kind = "missing"
       THEN [run EXCEPT !.self = _record_error(@, "BASE_DIR_MISSING"),
                        !.diagnostics = Append(@, "BASE_DIR_MISSING")]
       \* iterdir() on a path that is no directory: NotADirectoryError
       ELSE IF base.kind = "file" THEN [run EXCEPT !.raised = TRUE]
       ELSE EnsureLoop(run, base, 1, RegionNames)

\* The test that leaves out the records exactly at the radius.
WithinRadius_strict(record, point, radius) == Abs(record.x - point) < radius

\* gdf.geometry.distance(search_point) <= radius, row by row
WithinRadius(record, point, radius) == Abs(record.x - point) <= radius
Nearby(frame, point, radius) ==
    SelectSeq(frame.records, LAMBDA r : WithinRadius(r, point, radius))

RECURSIVE QueryLoop(_, _, _, _)
\* "for sidocode, gdf in self.cache.items()" from the i-th item on; run
\* holds the service, the rows collected and the diagnostics recorded.
QueryLoop(run, i, point, radius) ==
    IF i > Len(run.self.cache) THEN run
    ELSE LET item == run.self.cache[i]
         IN IF ~item.gdf.distance_ok
            THEN QueryLoop(
                    [run EXCEPT
                       !.self = _record_error(@, DistanceFailed(item.code)),
                       !.diagnostics = Append(@, DistanceFailed(item.code))],
                    i + 1, point, radius)
            ELSE QueryLoop(
                    [run EXCEPT
                       !.rows = @ \o Nearby(item.gdf, point, radius)],
                    i + 1, point, radius)

\* get_nearby_parcels: the service afterwards, the rows of the frame
\* returned and what _ensure_any_dataset and the loop did on the way.
get_nearby_parcels(self, base, point, radius) ==
    LET ensured == _ensure_any_dataset(self, base)
        run == [self |-> ensured.self, rows |-> <<>>,
                attempted |-> ensured.attempted,
                diagnostics |-> ensured.diagnostics,
                reads |-> ensured.reads, raised |-> ensured.raised]
    IN IF ensured.raised \/ Len(ensured.self.cache) = 0 THEN run
       ELSE QueryLoop(run, 1, point, radius)

(***************************************************************************)
(* The service as a process: calls of load_parcels and get_nearby_parcels  *)
(* in any order, one at a time.                                            *)
(***************************************************************************)
\* The kinds of entry each name may be.
EntryKinds(name) ==
    CASE name = "11" ->
            {"absent", "file", "no_shp", "unreadable", "empty", "data"}
      [] name = "26" -> {"absent", "empty", "data", "bad_geometry"}
      [] OTHER -> {"absent", "no_shp", "data"}

EntryChoices ==
    {e \in [Regions -> {"absent", "file", "no_shp", "unreadable", "empty",
                        "data", "bad_geometry"}] :
        \A n \in Regions : e[n] \in EntryKinds(n)}

BaseDirs ==
    {BaseDir("missing", NoEntries), BaseDir("file", NoEntries)}
    \cup {BaseDir("dir", e) : e \in EntryChoices}

SearchPoints == {0, 1}
\* radius = 0.003
DefaultRadius == 3

NoCall ==
    [op |-> "none", code |-> "", point |-> 0, outcome |-> "none",
     rows |-> <<>>, attempted |-> <<>>, diagnostics |-> <<>>, reads |-> <<>>,
     before |-> NewParcelService]

Threads == {1, 2}

\* A thread outside any call.
IdleThread ==
    [pc |-> "idle", op |-> "none", code |-> "", point |-> 0,
     caller |-> "none", frame |-> EmptyFrame, did_read |-> FALSE,
     entry |-> 0, item |-> 0, size |-> 0, rows |-> <<>>, outcome |-> "none"]

PsIdle ==
    /\ base_dir = BaseDir("missing", NoEntries)
    /\ parcel_service = NewParcelService
    /\ ps_call = NoCall
    /\ threads = [t \in Threads |-> IdleThread]

PsInit ==
    /\ base_dir \in BaseDirs
    /\ parcel_service = NewParcelService
    /\ ps_call = NoCall
    /\ threads = [t \in Threads |-> IdleThread]

\* A call of load_parcels(sidocode).
LoadParcels ==
    /\ \E sidocode \in Regions :
          LET r == load_parcels(parcel_service, base_dir, sidocode)
          IN /\ parcel_service' = r.self
             /\ ps_call' = [op |-> "load", code |-> sidocode, point |-> 0,
                            outcome |-> r.outcome, rows |-> r.gdf.records,
                            attempted |-> <<>>, diagnostics |-> <<>>,
                            reads |-> r.reads, before |-> parcel_service]
    /\ UNCHANGED <<base_dir, threads>>
    /\ UNCHANGED notParcel

\* A call of get_nearby_parcels(lat, lng, radius).
GetNearbyParcels ==
    /\ \E point \in SearchPoints :
          LET r == get_nearby_parcels(parcel_service, base_dir, point,
                                      DefaultRadius)
          IN /\ parcel_service' = r.self
             /\ ps_call' = [op |-> "nearby", code |-> "", point |-> point,
                            outcome |-> IF r.raised THEN "error" ELSE "ok",
                            rows |-> r.rows,
                            attempted |-> r.attempted,
                            diagnostics |-> r.diagnostics,
                            reads |-> r.reads, before |-> parcel_service]
    /\ UNCHANGED <<base_dir, threads>>
    /\ UNCHANGED notParcel

PsNext == LoadParcels \/ GetNearbyParcels

(***************************************************************************)
(* The service called from several threads.  A thread gives way to the     *)
(* others between two accesses of the shared object: load_parcels is the   *)
(* look in the cache, the reading of the source, the insertion and the     *)
(* setting of the flags; _ensure_any_dataset and get_nearby_parcels are    *)
(* their tests of the cache and one step per loop iteration.               *)
(***************************************************************************)
\* The base directories of the threaded runs.
ThreadedBaseDirs ==
    { BaseDir("missing", NoEntries),
      BaseDir("dir", [n \in Regions |->
                         CASE n = "11" -> "data" [] n = "26" -> "empty"
                           [] OTHER -> "no_shp"]),
      BaseDir("dir", [n \in Regions |->
                         CASE n = "11" -> "unreadable" [] n = "26" -> "bad_geometry"
                           [] OTHER -> "data"]),
      BaseDir("dir", [n \in Regions |->
                         CASE n = "11" -> "unreadable" [] n = "26" -> "absent"
                           [] OTHER -> "no_shp"]) }

PsInitThreaded ==
    /\ base_dir \in ThreadedBaseDirs
    /\ parcel_service = NewParcelService
    /\ ps_call = NoCall
    /\ threads = [t \in Threads |-> IdleThread]

\* Thread t goes on as local; the shared object is left alone or is next.
Goto(t, local) == threads' = [threads EXCEPT ![t] = local]
Alone == UNCHANGED <<base_dir, parcel_service, ps_call>> /\ UNCHANGED notParcel
Shared(next) ==
    /\ parcel_service' = next
    /\ UNCHANGED <<base_dir, ps_call>>
    /\ UNCHANGED notParcel

\* Where a thread that leaves load_parcels goes: back to the caller of
\* load_parcels, or into the try block's return or except clause in
\* _ensure_any_dataset.
AfterLoad(local, outcome) ==
    IF local.caller = "top"
    THEN [local EXCEPT !.pc = "done", !.outcome = outcome,
                       !.rows = IF outcome = "ok" THEN local.frame.records
                                ELSE <<>>]
    ELSE IF outcome = "ok" THEN [local EXCEPT !.pc = "query"]
    ELSE [local EXCEPT !.pc = "load_failed"]

\* A thread calls load_parcels(sidocode).
ThreadCallsLoad(t) ==
    /\ threads[t].pc = "idle"
    /\ \E sidocode \in Regions :
          Goto(t, [IdleThread EXCEPT !.pc = "lookup", !.op = "load",
                                     !.code = sidocode, !.caller = "top"])
    /\ Alone

\* A thread calls get_nearby_parcels(lat, lng).
ThreadCallsNearby(t) ==
    /\ threads[t].pc = "idle"
    /\ \E point \in SearchPoints :
          Goto(t, [IdleThread EXCEPT !.pc = "ensure", !.op = "nearby",
                                     !.point = point])
    /\ Alone

\* load_parcels: "if sidocode in self.cache: return self.cache[sidocode]"
ThreadLookup(t) ==
    /\ threads[t].pc = "lookup"
    /\ LET local == threads[t]
       IN IF InCache(parcel_service.cache, local.code)
          THEN Goto(t, AfterLoad(
                          [local EXCEPT !.frame = CacheGet(parcel_service.cache,
                                                           local.code)], "ok"))
          ELSE Goto(t, [local EXCEPT !.pc = "read"])
    /\ Alone

\* load_parcels: the folder checks, gpd.read_file and to_crs
ThreadRead(t) ==
    /\ threads[t].pc = "read"
    /\ LET local == threads[t]
           outcome == LoadOutcome(base_dir, local.code)
       IN IF outcome = "ok"
          THEN Goto(t, [local EXCEPT
                          !.pc = "insert", !.did_read = TRUE,
                          !.frame = ReadFile(local.code,
                                             Folder(base_dir, local.code))])
          ELSE Goto(t, AfterLoad([local EXCEPT !.did_read = outcome = "error"],
                                 outcome))
    /\ Alone

\* load_parcels: "self.cache[sidocode] = gdf"
ThreadInsert(t) ==
    /\ threads[t].pc = "insert"
    /\ Goto(t, [threads[t] EXCEPT !.pc = "flag"])
    /\ Shared([parcel_service EXCEPT
                 !.cache = CachePut(@, threads[t].code, threads[t].frame)])

\* load_parcels: "if not gdf.empty: ..." and "return gdf"
ThreadFlag(t) ==
    /\ threads[t].pc = "flag"
    /\ Goto(t, AfterLoad(threads[t], "ok"))
    /\ Shared(IF Len(threads[t].frame.records) > 0
              THEN [parcel_service EXCEPT !.is_loaded = TRUE,
                                          !.last_error = None]
              ELSE parcel_service)

\* _ensure_any_dataset up to the loop
ThreadEnsure(t) ==
    /\ threads[t].pc = "ensure"
    /\ LET local == threads[t]
       IN IF Len(parcel_service.cache) > 0
          THEN Goto(t, [local EXCEPT !.pc = "query"]) /\ Alone
          ELSE IF base_dir.kind = "missing"
          THEN /\ Goto(t, [local EXCEPT !.pc = "query"])
               /\ Shared(_record_error(parcel_service, "BASE_DIR_MISSING"))
          ELSE IF base_dir.kind = "file"
          THEN Goto(t, [local EXCEPT !.pc = "done", !.outcome = "error"])
               /\ Alone
          ELSE Goto(t, [local EXCEPT !.pc = "entries", !.entry = 1]) /\ Alone

\* _ensure_any_dataset: one entry of the loop, or the check after it
ThreadEntry(t) ==
    /\ threads[t].pc = "entries"
    /\ LET local == threads[t]
       IN IF local.entry > Len(RegionNames)
          THEN Goto(t, [local EXCEPT
                          !.pc = IF Len(parcel_service.cache) = 0
                                 THEN "no_dataset" ELSE "query"]) /\ Alone
          ELSE IF Folder(base_dir, RegionNames[local.entry]) \in {"absent", "file"}
          THEN Goto(t, [local EXCEPT !.entry = @ + 1]) /\ Alone
          ELSE Goto(t, [local EXCEPT !.pc = "lookup", !.caller = "ensure",
                                     !.code = RegionNames[local.entry]])
               /\ Alone

\* _ensure_any_dataset: "if not self.cache:" was true after the loop, the
\* error is recorded.
ThreadNoDataset(t) ==
    /\ threads[t].pc = "no_dataset"
    /\ Goto(t, [threads[t] EXCEPT !.pc = "query"])
    /\ Shared(_record_error(parcel_service, "NO_DATASET_AVAILABLE"))

\* _ensure_any_dataset: the except clause
ThreadLoadFailed(t) ==
    /\ threads[t].pc = "load_failed"
    /\ Goto(t, [threads[t] EXCEPT !.pc = "entries", !.entry = @ + 1])
    /\ Shared(_record_error(parcel_service, LoadFailed(threads[t].code)))

\* get_nearby_parcels: "if not self.cache" and the start of the loop; the
\* iterator of a dict remembers the size of the dict.
ThreadQuery(t) ==
    /\ threads[t].pc = "query"
    /\ LET local == threads[t]
       IN IF Len(parcel_service.cache) = 0
          THEN Goto(t, [local EXCEPT !.pc = "done", !.outcome = "ok"])
          ELSE Goto(t, [local EXCEPT !.pc = "items", !.item = 1,
                                     !.size = Len(parcel_service.cache)])
    /\ Alone

\* get_nearby_parcels: one item of the loop, or the return after it.  The
\* iterator raises RuntimeError when the dict has grown since the loop began.
ThreadItem(t) ==
    /\ threads[t].pc = "items"
    /\ LET local == threads[t]
           item == parcel_service.cache[local.item]
       IN IF Len(parcel_service.cache) # local.size
          THEN Goto(t, [local EXCEPT !.pc = "done", !.outcome = "error",
                                     !.rows = <<>>]) /\ Alone
          ELSE IF local.item > local.size
          THEN Goto(t, [local EXCEPT !.pc = "done", !.outcome = "ok"]) /\ Alone
          ELSE IF ~item.gdf.distance_ok
          THEN Goto(t, [local EXCEPT !.pc = "distance_failed",
                                     !.code = item.code]) /\ Alone
          ELSE Goto(t, [local EXCEPT
                          !.item = @ + 1,
                          !.rows = @ \o Nearby(item.gdf, local.point,
                                               DefaultRadius)]) /\ Alone

\* get_nearby_parcels: the except clause of the loop, which records the
\* error and continues; other threads may have run since the distance
\* computation raised.
ThreadDistanceFailed(t) ==
    /\ threads[t].pc = "distance_failed"
    /\ Goto(t, [threads[t] EXCEPT !.pc = "items", !.item = @ + 1])
    /\ Shared(_record_error(parcel_service, DistanceFailed(threads[t].code)))

\* The call is over.
ThreadReturns(t) ==
    /\ threads[t].pc = "done"
    /\ Goto(t, IdleThread)
    /\ Alone

ThreadedNext ==
    \E t \in Threads :
        \/ ThreadCallsLoad(t)
        \/ ThreadCallsNearby(t)
        \/ ThreadLookup(t)
        \/ ThreadRead(t)
        \/ ThreadInsert(t)
        \/ ThreadFlag(t)
        \/ ThreadEnsure(t)
        \/ ThreadEntry(t)
        \/ ThreadNoDataset(t)
        \/ ThreadLoadFailed(t)
        \/ ThreadQuery(t)
        \/ ThreadItem(t)
        \/ ThreadDistanceFailed(t)
        \/ ThreadReturns(t)

(***************************************************************************)
(* The service accessors get_report_service and get_parcel_service, called *)
(* from several threads.  Each accessor tests its module global, and while *)
(* the global is None constructs a service and stores it; it returns what  *)
(* the global holds when the return statement reads it.  A thread switch   *)
(* can fall between any two of these steps: no lock is taken.              *)
(***************************************************************************)
Accessors == {"get_report_service", "get_parcel_service"}
MaxCallers == 2
Callers == 1..MaxCallers

\* A reference is 0 for None or the position of an object in constructed.
NoInstance == 0

\* LLMReportService() with an empty environment, ParcelService().
NewReportService == [svc |-> Service(None), routing_table |-> EmptyEntry]
Construct(accessor) ==
    IF accessor = "get_report_service" THEN NewReportService
    ELSE NewParcelService

\* The directory the constructed ParcelService reads its regions from.
AccessorBaseDir ==
    BaseDir("dir", [n \in Regions |->
                       CASE n = "11" -> "data" [] n = "26" -> "empty"
                         [] OTHER -> "no_shp"])

\* The module global of an accessor.
Global(accessor) ==
    IF accessor = "get_report_service" THEN _report_service_instance
    ELSE _parcel_service_instance

IdleCaller ==
    [pc |-> "idle", accessor |-> "none", new |-> NoInstance,
     result |-> NoInstance]

DepIdle ==
    /\ _report_service_instance = NoInstance
    /\ _parcel_service_instance = NoInstance
    /\ constructed = [a \in Accessors |-> <<>>]
    /\ callers = [c \in Callers |-> IdleCaller]

DepInit == DepIdle

Step(c, local) ==
    /\ callers' = [callers EXCEPT ![c] = local]
    /\ UNCHANGED notDeps

\* A request calls an accessor.
CallAccessor(c) ==
    /\ callers[c].pc = "idle"
    /\ \E a \in Accessors :
          Step(c, [callers[c] EXCEPT !.pc = "test", !.accessor = a])
    /\ UNCHANGED <<_report_service_instance, _parcel_service_instance,
                   constructed>>

\* if _instance is None:
TestInstance(c) ==
    /\ callers[c].pc = "test"
    /\ Step(c, [callers[c] EXCEPT
                   !.pc = IF Global(callers[c].accessor) = NoInstance
                          THEN "construct" ELSE "return"])
    /\ UNCHANGED <<_report_service_instance, _parcel_service_instance,
                   constructed>>

\* The right-hand side of "_instance = Service()": a new object.
ConstructService(c) ==
    /\ callers[c].pc = "construct"
    /\ LET a == callers[c].accessor
       IN /\ constructed' =
                [constructed EXCEPT
                    ![a] = Append(@, Construct(a))]
          /\ Step(c, [callers[c] EXCEPT
                         !.pc = "assign", !.new = Len(constructed[a]) + 1])
    /\ UNCHANGED <<_report_service_instance, _parcel_service_instance>>

\* The store into the module global.
AssignInstance(c) ==
    /\ callers[c].pc = "assign"
    /\ IF callers[c].accessor = "get_report_service"
       THEN /\ _report_service_instance' = callers[c].new
            /\ UNCHANGED _parcel_service_instance
       ELSE /\ _parcel_service_instance' = callers[c].new
            /\ UNCHANGED _report_service_instance
    /\ Step(c, [callers[c] EXCEPT !.pc = "return"])
    /\ UNCHANGED constructed

\* return _instance
ReturnInstance(c) ==
    /\ callers[c].pc = "return"
    /\ Step(c, [callers[c] EXCEPT
                   !.pc = "returned",
                   !.result = Global(callers[c].accessor)])
    /\ UNCHANGED <<_report_service_instance, _parcel_service_instance,
                   constructed>>

\* The request uses the parcel service it was given: get_nearby_parcels
\* fills the cache of that object.
UseParcelService(c) ==
    /\ callers[c].pc = "returned"
    /\ callers[c].accessor = "get_parcel_service"
    /\ \E point \in SearchPoints :
          LET ref == callers[c].result
              self == constructed["get_parcel_service"][ref]
          IN constructed' =
                [constructed EXCEPT
                    !["get_parcel_service"][ref] =
                        get_nearby_parcels(self, AccessorBaseDir, point,
                                           DefaultRadius).self]
    /\ Step(c, [callers[c] EXCEPT !.pc = "used"])
    /\ UNCHANGED <<_report_service_instance, _parcel_service_instance>>

DepNext ==
    \E c \in Callers :
        \/ CallAccessor(c)
        \/ TestInstance(c)
        \/ ConstructService(c)
        \/ AssignInstance(c)
        \/ ReturnInstance(c)
        \/ UseParcelService(c)

(***************************************************************************)
(* Specifications, one per component; the other components stay idle.      *)
(***************************************************************************)
InitClassify == ClsInit /\ SumIdle /\ SvcIdle /\ RtIdle /\ RpIdle /\ PsIdle /\ DepIdle
SpecClassify == InitClassify /\ [][ClsNext]_vars

InitSummary == SumInit /\ ClsIdle /\ SvcIdle /\ RtIdle /\ RpIdle /\ PsIdle /\ DepIdle
SpecSummary == InitSummary /\ [][SumNext]_vars

InitRoute == RtInit /\ ClsIdle /\ SumIdle /\ RpIdle /\ PsIdle /\ DepIdle
SpecRoute == InitRoute /\ [][RtNext]_vars

InitReport == RpInit /\ RtIdle /\ ClsIdle /\ SumIdle /\ PsIdle /\ DepIdle
SpecReport == InitReport /\ [][RpNext]_vars

InitParcel == PsInit /\ SvcIdle /\ RtIdle /\ RpIdle /\ ClsIdle /\ SumIdle /\ DepIdle
SpecParcel == InitParcel /\ [][PsNext]_vars

InitThreaded ==
    PsInitThreaded /\ SvcIdle /\ RtIdle /\ RpIdle /\ ClsIdle /\ SumIdle
        /\ DepIdle
SpecThreaded == InitThreaded /\ [][ThreadedNext]_vars

InitDeps ==
    DepInit /\ PsIdle /\ SvcIdle /\ RtIdle /\ RpIdle /\ ClsIdle /\ SumIdle
SpecDeps == InitDeps /\ [][DepNext]_vars

(***************************************************************************)
(* Properties of the geometry summary (SpecSummary, SpecClassify).         *)
(***************************************************************************)
Done == sum_pc = "done"
Returned == Done /\ ~sum_result.isnone

RowIdx == 1..Len(gdf.rows)
HasGeometry(i) ==
    ~gdf.rows[i].geometry.isnone /\ ~gdf.rows[i].geometry.is_empty
\* The record contributes a valid positive area measurement.
ContributesArea(i) ==
    /\ HasGeometry(i)
    /\ gdf.rows[i].geometry.area_ok
    /\ gdf.rows[i].geometry.area > 0

\* C7: summarize_nearby returns null whenever no record contributes a valid
\* positive area (null or empty set, only null or empty geometries, only
\* failing or zero areas), and a returned summary has total_count >= 1.
C7_NullWithoutValidArea ==
    Done =>
        /\ (gdf.isnone \/ \A i \in RowIdx : ~ContributesArea(i))
              => sum_result.isnone
        /\ ~sum_result.isnone => sum_result.total_count >= 1

\* Null is returned for a frame that has geometries, one whose area fails and
\* one whose area is zero.
C7_Witness ==
    /\ Done
    /\ sum_result.isnone
    /\ \E i \in RowIdx : HasGeometry(i) /\ ~gdf.rows[i].geometry.area_ok
    /\ \E i \in RowIdx : HasGeometry(i) /\ gdf.rows[i].geometry.area_ok
                            /\ gdf.rows[i].geometry.area = 0

\* An attribute value is empty when it is absent or null, the empty string or
\* a zero; NaN is a value.
IsEmptyValue(v) == v = None \/ v = Str("") \/ v = PyInt(0)
KeyIdx == 1..Len(candidate_keys)
HasLabel(i) ==
    \E k \in KeyIdx : ~IsEmptyValue(Get(gdf.rows[i].attrs, candidate_keys[k]))
FirstKey(i) ==
    CHOOSE k \in KeyIdx :
        /\ ~IsEmptyValue(Get(gdf.rows[i].attrs, candidate_keys[k]))
        /\ \A m \in 1..(k - 1) :
              IsEmptyValue(Get(gdf.rows[i].attrs, candidate_keys[m]))
LabelOf(i) == PyStr(Get(gdf.rows[i].attrs, candidate_keys[FirstKey(i)]))
Tallied == {i \in RowIdx : HasGeometry(i) /\ HasLabel(i)}
AllLabels == {LabelOf(i) : i \in Tallied}
CountOf(l) == Cardinality({i \in Tallied : LabelOf(i) = l})
FirstSeen(l) ==
    CHOOSE i \in Tallied :
        LabelOf(i) = l /\ \A j \in Tallied : LabelOf(j) = l => i <= j
\* Label a ranks before label b: more records, or as many and seen first.
RanksBefore(a, b) ==
    \/ CountOf(a) > CountOf(b)
    \/ CountOf(a) = CountOf(b) /\ FirstSeen(a) < FirstSeen(b)

\* C8: top_land_uses has at most 3 entries, sorted by count in non-increasing
\* order, equal counts in first-encountered record order; the label tallied
\* for a record is the first non-empty value among the candidate keys.
C8_TopLandUses ==
    Returned =>
        LET top == sum_result.top_land_uses
        IN /\ Len(top) <= 3
           /\ Len(top) = IF Cardinality(AllLabels) < 3
                         THEN Cardinality(AllLabels) ELSE 3
           /\ \A i \in 1..Len(top) :
                 /\ top[i].use \in AllLabels
                 /\ top[i].count = CountOf(top[i].use)
           /\ \A i, j \in 1..Len(top) :
                 i < j => /\ top[i].count >= top[j].count
                          /\ RanksBefore(top[i].use, top[j].use)
           /\ \A l \in AllLabels :
                 (\A i \in 1..Len(top) : top[i].use # l)
                    => \A i \in 1..Len(top) : RanksBefore(top[i].use, l)

\* Four labels, the first two entries tied, one label left out, and a label
\* read from a later key because the first key's value is empty.
C8_Witness ==
    /\ Returned
    /\ Cardinality(AllLabels) > 3
    /\ Len(sum_result.top_land_uses) = 3
    /\ sum_result.top_land_uses[1].count = sum_result.top_land_uses[2].count
    /\ \E i \in Tallied : FirstKey(i) > 1

Candidates == {i \in RowIdx : HasGeometry(i) /\ gdf.rows[i].geometry.dist_ok}
Nearest ==
    CHOOSE i \in Candidates :
        \A j \in Candidates :
            \/ DistanceM(gdf.rows[i].geometry) < DistanceM(gdf.rows[j].geometry)
            \/ /\ DistanceM(gdf.rows[i].geometry) = DistanceM(gdf.rows[j].geometry)
               /\ i <= j

\* C9: closest.distance_m is the minimum centroid distance over the records
\* with non-empty geometry whose distance could be computed, closest.label is
\* the label of the record achieving it, and of records at the same distance
\* the first encountered is kept.
C9_Closest ==
    Returned =>
        IF Candidates = {} THEN sum_result.closest.isnone
        ELSE /\ ~sum_result.closest.isnone
             /\ sum_result.closest.distance_m
                   = DistanceM(gdf.rows[Nearest].geometry)
             /\ sum_result.closest.label = RowLabel(gdf.rows[Nearest])
             /\ \A j \in Candidates :
                   sum_result.closest.distance_m
                      <= DistanceM(gdf.rows[j].geometry)

\* Two records with different labels at the minimum distance, after a record
\* that is farther away.
C9_Witness ==
    /\ Returned
    /\ ~sum_result.closest.isnone
    /\ \E i, j \in Candidates :
          /\ i < j
          /\ gdf.rows[i].geometry.dist = gdf.rows[j].geometry.dist
          /\ DistanceM(gdf.rows[i].geometry) = sum_result.closest.distance_m
          /\ RowLabel(gdf.rows[i]) # RowLabel(gdf.rows[j])
          /\ sum_result.closest.label = RowLabel(gdf.rows[i])
    /\ \E k \in Candidates :
          /\ k < Nearest
          /\ DistanceM(gdf.rows[k].geometry) > sum_result.closest.distance_m

Measured == {i \in RowIdx : ContributesArea(i)}
\* Has a geometry, but its area is zero or could not be computed.
Unmeasured == {i \in RowIdx : HasGeometry(i) /\ ~ContributesArea(i)}
SquareMetres(i) ==
    LET a == gdf.rows[i].geometry.area
        perDegree == METERS_PER_DEGREE \div 1000
    IN (IF a < 0 THEN -a ELSE a) * perDegree * perDegree
RECURSIVE SumOfAreas(_)
SumOfAreas(S) ==
    IF S = {} THEN 0
    ELSE LET i == CHOOSE k \in S : TRUE
         IN SquareMetres(i) + SumOfAreas(S \ {i})
TallyOf(l) ==
    IF \E k \in 1..Len(land_use_counter) : land_use_counter[k].use = l
    THEN LET k == CHOOSE m \in 1..Len(land_use_counter) :
                     land_use_counter[m].use = l
         IN land_use_counter[k].count
    ELSE 0

BucketRank(b) == CHOOSE i \in 1..Len(Buckets) : Buckets[i] = b
InBucket(area, b) ==
    CASE b = "SMALL" -> area < 300 * M2
      [] b = "MEDIUM" -> 300 * M2 <= area /\ area < 1000 * M2
      [] b = "LARGE" -> 1000 * M2 <= area /\ area < 3000 * M2
      [] OTHER -> area >= 3000 * M2

\* C10: area < 300 is SMALL, 300 <= area < 1000 MEDIUM, 1000 <= area < 3000
\* LARGE, area >= 3000 XLARGE; a larger area never maps to a smaller bucket.
C10_Buckets ==
    cls_pc = "done" =>
        /\ cls_ra \in BucketSet /\ InBucket(cls_a, cls_ra)
        /\ cls_rb \in BucketSet /\ InBucket(cls_b, cls_rb)
        /\ cls_a <= cls_b => BucketRank(cls_ra) <= BucketRank(cls_rb)

\* The boundary value 300 is MEDIUM and the boundary value 3000 is XLARGE.
C10_Witness ==
    /\ cls_pc = "done"
    /\ cls_a = 300 * M2 /\ cls_ra = "MEDIUM"
    /\ cls_b = 3000 * M2 /\ cls_rb = "XLARGE"

(***************************************************************************)
(* Properties of generate_report (SpecReport).                             *)
(***************************************************************************)
Fallback == _fallback_report(rp_station, rp_recommendations, rp_parcel_summary)

\* The remote call was made and what came back is unusable: no content
\* (transport error, timeout, non-success status, malformed body, empty
\* choices, empty content), content that is not JSON, or JSON that is not an
\* object.
Unusable ==
    /\ calls > 0
    /\ \/ ResponseOf(remote).isnone
       \/ ~JsonLoads(Cleaned(remote.content)).ok
       \/ JsonLoads(Cleaned(remote.content)).val.t # "obj"

\* C1: whatever the remote end does, generate_report returns a report, and
\* it returns the fallback report when the remote content is unusable.
C1_NeverRaises ==
    rp_pc = "done" =>
        /\ result.kind = "report"
        /\ Unusable => result = Returns(Fallback)

\* C1 holds of the calls in which no content reached the parser.
C1_WithoutContent ==
    (rp_pc = "done" /\ llm_response.isnone) => result = Returns(Fallback)

NonEmptyReport(r) ==
    TextTruthy(r.summary) /\ Len(r.insights) > 0 /\ Len(r.actions) > 0

Effective == _resolve_route(routing_table, Defaults(svc), rp_station_id)

\* C3: when the effective configuration has no credential (absent, null or
\* empty, also by an entry overriding the global key), generate_report
\* issues no remote call and returns the fallback report.
C3_NoCredentialNoCall ==
    (rp_pc \notin {"off", "idle"} /\ ~Truthy(Get(Effective, "api_key")))
        => /\ calls = 0
           /\ ~request.posted
           /\ rp_pc = "done" => result = Returns(Fallback)

\* A global key is configured and the entry of station 42 overrides it with
\* the empty string: the call has returned the fallback without a post.
C3_Witness ==
    /\ rp_pc = "done"
    /\ svc.api_key = Str("sk-global")
    /\ rp_station_id = SomeId(42)
    /\ Get(Effective, "api_key") = Str("")
    /\ calls = 0
    /\ result = Returns(Fallback)

\* The number of times step occurs in the steps of the current call.
Count(step) == Cardinality({i \in 1..Len(events) : events[i] = step})

Trimmed(items) ==
    \A i \in 1..Len(items) :
        TextTruthy(items[i]) /\ Strip(items[i]) = items[i]

\* C5: generate_report returns the remote result if and only if the content,
\* with a code fence and language tag stripped, parses as JSON and at least
\* one of summary, insights, actions is non-empty; then the insights and
\* actions are the non-empty trimmed strings in their original order;
\* otherwise the fallback report is returned.
C5_RemoteIffUsable ==
    (rp_pc = "done" /\ ~llm_response.isnone) =>
        LET expected == ParseGuardingShapes(llm_response.content)
        IN IF expected.isnone
           THEN result = Returns(Fallback)
           ELSE /\ result = Returns(expected.report)
                /\ Trimmed(expected.report.insights)
                /\ Trimmed(expected.report.actions)

\* C5 holds of the calls in which the parser raises nothing.
C5_WhenNothingRaised ==
    (rp_pc = "done" /\ ~llm_response.isnone /\ result.kind # "raised") =>
        LET expected == ParseGuardingShapes(llm_response.content)
        IN IF expected.isnone
           THEN result = Returns(Fallback)
           ELSE /\ result = Returns(expected.report)
                /\ Trimmed(expected.report.insights)
                /\ Trimmed(expected.report.actions)

\* The entry the resolution merged, as the code selects it.
Chosen ==
    LET byId == IF rt_id.isnone THEN NoEntry
                ELSE TableGet(routing_table, ToString(rt_id.id))
    IN IF byId.isnone THEN Wildcard(routing_table) ELSE byId

Sets(f) == EntryTruthy(Chosen) /\ f \in DOMAIN Chosen.entry

\* The tokens of a boolean field, compared in lower case.
TruthyTokens == {"true", "1", "yes"}
FalsyTokens == {"false", "0", "no"}
Token(v) == Lower(PyStr(v))

\* What C17 asks of force_json for an entry value v.
NormalisedAs(v) ==
    /\ rt_out["force_json"].t = "bool"
    /\ v.t = "bool" => rt_out["force_json"] = v
    /\ (v.t # "bool" /\ Token(v) \in TruthyTokens)
          => rt_out["force_json"] = PyBool(TRUE)
    /\ (v.t = "none" \/ (v.t # "bool" /\ Token(v) \notin TruthyTokens))
          => rt_out["force_json"] = PyBool(FALSE)

\* C17: when the entry sets force_json, the resolved value is a boolean
\* taken from a fixed set of truthy and falsy tokens, and false for a null
\* value and for any value that is no recognised token.
C17_ForceJsonTokens ==
    (rt_pc = "done" /\ Sets("force_json"))
        => NormalisedAs(Chosen.entry["force_json"])

\* C17 holds of null and of the tokens of the two sets.
C17_RecognisedTokens ==
    (/\ rt_pc = "done" /\ Sets("force_json")
     /\ \/ Chosen.entry["force_json"].t \in {"bool", "none"}
        \/ Token(Chosen.entry["force_json"]) \in TruthyTokens \cup FalsyTokens)
        => NormalisedAs(Chosen.entry["force_json"])

\* A timeout or temperature the entry gives that is no number leaves the
\* default of that field.
NumericDefaultsKept ==
    \A f \in {"timeout", "temperature"} :
        (Sets(f) /\ ~ToFloat(Chosen.entry[f]).ok)
            => rt_out[f] = Defaults(svc)[f]

\* C18: the effective configuration has exactly the six recognised fields,
\* a key of the entry outside them is not merged, and a timeout or
\* temperature that does not parse as a number is ignored, the default kept.
C18_SixFields ==
    rt_pc = "done" => DOMAIN rt_out = ConfigKeys /\ NumericDefaultsKept

\* C18 for the numeric fields alone.
C18_NumericDefaults == rt_pc = "done" => NumericDefaultsKept

(***************************************************************************)
(* Properties of ParcelService (SpecParcel).                               *)
(***************************************************************************)
\* C11: a load of a cached region returns the cached dataset, reads no
\* source and changes nothing; a load of a region whose directory is absent
\* or holds no .shp file fails with a not-found error and leaves the cache,
\* is_loaded and last_error as they were.
C11_LoadIdempotent ==
    ps_call.op = "load" =>
        /\ InCache(ps_call.before.cache, ps_call.code)
              => /\ ps_call.outcome = "ok"
                 /\ ps_call.rows =
                       CacheGet(ps_call.before.cache, ps_call.code).records
                 /\ ps_call.reads = <<>>
                 /\ parcel_service = ps_call.before
        /\ Folder(base_dir, ps_call.code) \in {"absent", "file", "no_shp"}
              => /\ ps_call.outcome = "not_found"
                 /\ parcel_service.cache = ps_call.before.cache
                 /\ is_loaded(parcel_service) = is_loaded(ps_call.before)
                 /\ parcel_service.last_error = ps_call.before.last_error

\* Region 26 is loaded again while cached, after a diagnostic was recorded.
C11_Witness ==
    /\ ps_call.op = "load"
    /\ ps_call.code = "26"
    /\ InCache(ps_call.before.cache, "26")
    /\ Len(ps_call.rows) > 0
    /\ ps_call.reads = <<>>
    /\ parcel_service.last_error # None

\* The region directories under the base directory, in sorted order.
CandidateDirs ==
    IF base_dir.kind = "dir"
    THEN SelectSeq(RegionNames,
                   LAMBDA n : base_dir.entries[n] \notin {"absent", "file"})
    ELSE <<>>

Loadable(n) == base_dir.entries[n] \in {"empty", "data", "bad_geometry"}

\* The position in CandidateDirs of the first loadable one, 0 without one.
FirstLoadable ==
    IF \E i \in 1..Len(CandidateDirs) : Loadable(CandidateDirs[i])
    THEN CHOOSE i \in 1..Len(CandidateDirs) :
            /\ Loadable(CandidateDirs[i])
            /\ \A j \in 1..(i - 1) : ~Loadable(CandidateDirs[j])
    ELSE 0

CacheKeys(cache) == [i \in 1..Len(cache) |-> cache[i].code]

\* C12: nearby on an empty cache tries the region directories in sorted
\* order, records a diagnostic for each that fails and goes on, and stops at
\* the first that loads; the cache then holds that one region, or nothing
\* when none loads.  With a region cached, nearby attempts no load.
C12_FirstLoadableRegion ==
    ps_call.op = "nearby" =>
        IF Len(ps_call.before.cache) > 0
        THEN /\ ps_call.attempted = <<>>
             /\ ps_call.reads = <<>>
             /\ parcel_service.cache = ps_call.before.cache
        ELSE LET failed == IF FirstLoadable = 0 THEN Len(CandidateDirs)
                           ELSE FirstLoadable - 1
             IN /\ ps_call.attempted =
                      IF FirstLoadable = 0 THEN CandidateDirs
                      ELSE SubSeq(CandidateDirs, 1, FirstLoadable)
                /\ Len(ps_call.diagnostics) >= failed
                /\ \A i \in 1..failed :
                      ps_call.diagnostics[i] = LoadFailed(CandidateDirs[i])
                /\ CacheKeys(parcel_service.cache) =
                      IF FirstLoadable = 0 THEN <<>>
                      ELSE <<CandidateDirs[FirstLoadable]>>

\* The first directory failed to load and the second one loaded.
C12_Witness ==
    /\ ps_call.op = "nearby"
    /\ Len(ps_call.before.cache) = 0
    /\ ps_call.attempted = <<"11", "26">>
    /\ ps_call.diagnostics[1] = LoadFailed("11")
    /\ CacheKeys(parcel_service.cache) = <<"26">>
    /\ base_dir.entries["41"] = "data"

\* No record of a cached region lies within the radius of the search point.
NothingInRadius ==
    \A i \in 1..Len(parcel_service.cache) :
        \A k \in 1..Len(parcel_service.cache[i].gdf.records) :
            ~WithinRadius(parcel_service.cache[i].gdf.records[k],
                          ps_call.point, DefaultRadius)

\* What C13 asks of the call of nearby just made.
NearbyDegrades ==
    /\ (Len(ps_call.before.cache) = 0 /\ FirstLoadable = 0)
          => /\ ps_call.outcome = "ok"
             /\ ps_call.rows = <<>>
             /\ parcel_service.last_error # None
    /\ (Len(ps_call.before.cache) > 0 /\ NothingInRadius)
          => ps_call.outcome = "ok" /\ ps_call.rows = <<>>

\* C13: nearby never fails for lack of data: before any load with the base
\* directory missing, or when no candidate region is loadable, it returns an
\* empty result without raising and last_error is then set; with regions
\* cached and no record within the radius it returns an empty result
\* without raising.
C13_NeverFails == ps_call.op = "nearby" => NearbyDegrades

\* C13 holds when the base path is missing or is a directory.
C13_WithListableBase ==
    (ps_call.op = "nearby" /\ base_dir.kind # "file") => NearbyDegrades

\* The cache holds a region whose dataset is not empty.
HoldsData(self) ==
    \E i \in 1..Len(self.cache) : Len(self.cache[i].gdf.records) > 0

\* C14: after any sequence of calls, is_loaded is true exactly when the
\* cache holds a region with a non-empty dataset, and a call never turns it
\* from true to false.
C14_IsLoaded ==
    /\ is_loaded(parcel_service) = HoldsData(parcel_service)
    /\ (ps_call.op # "none" /\ is_loaded(ps_call.before))
          => is_loaded(parcel_service)

\* Two regions are cached, both empty, and a failing load came last.
C14_Witness ==
    /\ Len(parcel_service.cache) = 2
    /\ ~HoldsData(parcel_service)
    /\ ~is_loaded(parcel_service)
    /\ ps_call.op = "load" /\ ps_call.outcome = "not_found"

\* The record is at most the radius away from the search point of the call.
InRadius(record) ==
    /\ record.x - ps_call.point <= DefaultRadius
    /\ ps_call.point - record.x <= DefaultRadius

\* The records of the cached regions whose distances can be computed.
Searchable ==
    {r \in UNION {{SourceRecords(n)[k] : k \in 1..Len(SourceRecords(n))} :
                  n \in Regions} :
        \E i \in 1..Len(parcel_service.cache) :
            /\ parcel_service.cache[i].code = r.region
            /\ parcel_service.cache[i].gdf.distance_ok
            /\ \E k \in 1..Len(parcel_service.cache[i].gdf.records) :
                  parcel_service.cache[i].gdf.records[k] = r}

\* C16: the result of nearby is exactly the union over the cached regions
\* of the records within radius of the point, none farther and none
\* missing; a region whose distance computation fails contributes nothing,
\* has a diagnostic recorded, and does not keep the other regions' records
\* from being returned.
C16_NearbyIsUnion ==
    (ps_call.op = "nearby" /\ ps_call.outcome = "ok") =>
        /\ {ps_call.rows[k] : k \in 1..Len(ps_call.rows)}
              = {r \in Searchable : InRadius(r)}
        /\ Len(ps_call.rows) = Cardinality({r \in Searchable : InRadius(r)})
        /\ \A i \in 1..Len(parcel_service.cache) :
              ~parcel_service.cache[i].gdf.distance_ok
                 => /\ \E d \in 1..Len(ps_call.diagnostics) :
                          ps_call.diagnostics[d] =
                             DistanceFailed(parcel_service.cache[i].code)
                    /\ parcel_service.last_error # None

\* Three regions are cached, the distances of region 26 fail, and the
\* result holds the records of 11 and 41 up to exactly the radius.
C16_Witness ==
    /\ ps_call.op = "nearby" /\ ps_call.point = 0
    /\ Len(parcel_service.cache) = 3
    /\ base_dir.entries["26"] = "bad_geometry"
    /\ {ps_call.rows[k] : k \in 1..Len(ps_call.rows)}
          = {ParcelRecord("11", 0), ParcelRecord("11", 3), ParcelRecord("41", 2)}
    /\ parcel_service.last_error = Str(DistanceFailed("26"))

(***************************************************************************)
(* Properties of ParcelService under concurrent calls (SpecThreaded).      *)
(***************************************************************************)
\* The dataset of a region as its source file gives it.
SourceData(sidocode) == ReadFile(sidocode, Folder(base_dir, sidocode))

\* Every finished load that returned a dataset returned the region's source
\* data, and every cache entry is its region's source data, once per code.
LoadsAgreeWithSource ==
    /\ \A t \in Threads :
          (threads[t].pc = "done" /\ threads[t].op = "load"
             /\ threads[t].outcome = "ok")
             => threads[t].rows = SourceData(threads[t].code).records
    /\ \A i \in 1..Len(parcel_service.cache) :
          /\ parcel_service.cache[i].gdf =
                SourceData(parcel_service.cache[i].code)
          /\ \A j \in 1..Len(parcel_service.cache) :
                parcel_service.cache[j].code = parcel_service.cache[i].code
                   => j = i

\* A step removes no region from the cache and leaves every cached dataset
\* as it was.
CacheOnlyGrows ==
    \A i \in 1..Len(parcel_service.cache) :
        /\ i <= Len(parcel_service'.cache)
        /\ parcel_service'.cache[i] = parcel_service.cache[i]

\* C15: under any interleaving of concurrent load_region and nearby calls,
\* two first loads of one region racing included, every load returns a
\* dataset equal to the region's source data, a cache entry equals its
\* region's source data once present, no region is removed from the cache
\* and no cached dataset is modified.
C15_ConcurrentLoads == [](LoadsAgreeWithSource) /\ [][CacheOnlyGrows]_vars

\* Both threads found region 11 uncached, both read its source, and both
\* loads have returned.
C15_Witness ==
    /\ \A t \in Threads :
          /\ threads[t].pc = "done"
          /\ threads[t].op = "load"
          /\ threads[t].code = "11"
          /\ threads[t].did_read
          /\ threads[t].outcome = "ok"
          /\ Len(threads[t].rows) > 0
    /\ CacheKeys(parcel_service.cache) = <<"11">>

\* The type of the first recommendation: its type, else its usage_type.
TopType ==
    IF Truthy(Get(rp_recommendations[1], "type"))
    THEN Get(rp_recommendations[1], "type")
    ELSE Get(rp_recommendations[1], "usage_type")

\* What C19 asks of a fallback report.
FallbackShape(r) ==
    /\ r.actions = FixedActions
    /\ Len(r.insights) = IF Len(rp_recommendations) > 0 THEN 4 ELSE 3
    /\ SubSeq(r.insights, Len(r.insights) - 2, Len(r.insights)) = FixedInsights
    /\ Len(rp_recommendations) > 0
          => \E k \in 1..Len(r.insights[1]) :
                r.insights[1][k] = PyStr(TopType)

ReturnedFallback ==
    rp_pc = "done" /\ Len(events) > 0 /\ events[Len(events)] = "fallback"

\* C19: the fallback report's actions are the three fixed statements, and
\* its insights are the three fixed statements preceded, whenever the
\* recommendation list is non-empty, by one line naming the type of the
\* first recommendation: 4 insights with recommendations, 3 without.
C19_FallbackInsights == ReturnedFallback => FallbackShape(result.report)

\* C19 holds when the first recommendation has a type or a usage_type.
C19_WithTypedTop ==
    (/\ ReturnedFallback
     /\ Len(rp_recommendations) > 0 => Truthy(TopType))
        => FallbackShape(result.report)

(***************************************************************************)
(* Properties of routing (SpecRoute).                                      *)
(***************************************************************************)
\* The key of the entry the lookup order names: the stringified id, else
\* "*", else "default", else "DEFAULT"; "" when there is none.
LookupKey ==
    IF ~rt_id.isnone /\ ToString(rt_id.id) \in DOMAIN routing_table
    THEN ToString(rt_id.id)
    ELSE IF "*" \in DOMAIN routing_table THEN "*"
    ELSE IF "default" \in DOMAIN routing_table THEN "default"
    ELSE IF "DEFAULT" \in DOMAIN routing_table THEN "DEFAULT"
    ELSE ""

\* Field f of the result is the entry's value: as given for the text fields,
\* as a number for timeout and temperature (the default when it is not one),
\* as a boolean for force_json.
Overrides(f, entry) ==
    CASE f \in {"timeout", "temperature"} ->
            rt_out[f] = IF ToFloat(entry[f]).ok THEN ToFloat(entry[f]).val
                        ELSE Defaults(svc)[f]
      [] f = "force_json" -> rt_out[f].t = "bool"
      [] OTHER -> rt_out[f] = entry[f]

MergedFrom(key) ==
    IF key = "" THEN rt_out = Defaults(svc)
    ELSE \A f \in ConfigKeys :
            IF f \in DOMAIN routing_table[key]
            THEN Overrides(f, routing_table[key])
            ELSE rt_out[f] = Defaults(svc)[f]

\* C6: resolution picks exactly one entry in the order stringified id, "*",
\* "default", "DEFAULT", none; the chosen entry's fields override the
\* defaults, every field it does not set keeps its default, and without an
\* entry the defaults are returned unchanged.
C6_LookupOrder == rt_pc = "done" => MergedFrom(LookupKey)

\* C6 for the tables whose "*" and "default" entries, when
\* present, set at least one field.
C6_ExceptEmptyWildcards ==
    (/\ rt_pc = "done"
     /\ \A k \in {"*", "default"} \cap DOMAIN routing_table :
           DOMAIN routing_table[k] # {})
        => MergedFrom(LookupKey)

\* The table of the example: {"42": {model: x}, "*": {timeout: 10}}.
C6_Example ==
    (/\ rt_pc = "done"
     /\ routing_table = ("42" :> [model |-> Str("x")])
                        @@ ("*" :> [timeout |-> PyInt(10)]))
        => /\ rt_id = SomeId(42)
              => rt_out["model"] = Str("x") /\ rt_out["timeout"] = PyFloat(300)
           /\ rt_id = SomeId(7)
              => /\ rt_out["model"] = Str("gpt-4o-mini")
                 /\ rt_out["timeout"] = PyFloat(100)

(***************************************************************************)
(* Properties of the service accessors (SpecDeps).                         *)
(***************************************************************************)
HasReturned(c) == callers[c].pc \in {"returned", "used"}
ReturnedFrom(a) == {c \in Callers : HasReturned(c) /\ callers[c].accessor = a}

\* C21: for any interleaving of concurrent calls of get_report_service, and
\* likewise of get_parcel_service, the service is constructed at most once
\* and every call returns the same instance.
C21_Singleton ==
    \A a \in Accessors :
        /\ Len(constructed[a]) <= 1
        /\ \A c, d \in ReturnedFrom(a) : callers[c].result = callers[d].result

\* Every call returns a constructed service, never None, and a global that
\* was set holds a constructed service.
C21_ReturnsAnInstance ==
    \A a \in Accessors :
        /\ Global(a) \in 0..Len(constructed[a])
        /\ \A c \in ReturnedFrom(a) :
              callers[c].result \in 1..Len(constructed[a])

\* A second service is constructed only by a caller that tested the global
\* before the first one was stored: there are never more services than
\* callers that have passed the test.
C21_ConstructedByRacers ==
    \A a \in Accessors :
        Len(constructed[a])
            <= Cardinality({c \in Callers :
                              /\ callers[c].accessor = a
                              /\ callers[c].new # NoInstance})

\* While one service has been constructed, all calls return it.
C21_SameWhileOne ==
    \A a \in Accessors :
        Len(constructed[a]) = 1
            => \A c \in ReturnedFrom(a) : callers[c].result = 1

\* Two requests were handed two parcel services: a region loaded through one
\* is not in the cache of the other.
C21_SeparateCaches ==
    \E c, d \in ReturnedFrom("get_parcel_service") :
        /\ callers[c].pc = "used"
        /\ callers[c].result # callers[d].result
        /\ \E n \in Regions :
              /\ InCache(constructed["get_parcel_service"][callers[c].result].cache, n)
              /\ ~InCache(constructed["get_parcel_service"][callers[d].result].cache, n)

\* Two requests were handed two report services.
C21_SeparateReportServices ==
    \E c, d \in ReturnedFrom("get_report_service") :
        callers[c].result # callers[d].result

====
